---- MODULE Spec2Model ----
(***************************************************************************)
(* Verification model of brain-dashboard: the statistical runner           *)
(* (run_analysis.py), the dashboard controller and its pickle history      *)
(* store (app.py), and the admin / FreeSurfer pipeline (admin_app.py,      *)
(* freesurfer.py, watch_folder.py), the region-volume loader               *)
(* (data_loaders.py) and the region-to-vertex mapping of the rendering     *)
(* (atlas_utils.py, brain_visualization.py).                               *)
(*                                                                         *)
(* Ten specifications share the module:                                    *)
(*   SpecStats - is_valid_test / perform_statistical_analysis as pure      *)
(*               functions applied to inputs drawn from bounded sets;      *)
(*   Spec      - a dashboard session (BrainAnalysisApp), form edited       *)
(*               freely;                                                   *)
(*   SpecRuns  - a dashboard session of several runs, form filled in       *)
(*               order;                                                    *)
(*   SpecPipe  - folder watcher, admin requests and pipeline processes;    *)
(*   SpecWatch - the watching daemon and a one-shot scan on every kind of  *)
(*               folder entry;                                             *)
(*   SpecTables - update-table processes running together;                 *)
(*   SpecUpdate - FreeSurfer.update_table as a pure function;              *)
(*   SpecFilter - the cohort selector over the loaded users table;         *)
(*   SpecLoad  - load_brain_volumes_data on every state of its three       *)
(*               files;                                                    *)
(*   SpecView  - region values mapped to mesh vertices and to glass-brain  *)
(*               points.                                                   *)
(***************************************************************************)
EXTENDS Integers, Sequences, FiniteSets, TLC

(***************************************************************************)
(* Bounds                                                                  *)
(***************************************************************************)
NumUsers == 3
MaxClicks == 1
MaxRuns == 2
MaxTime == 1
MaxNameLen == 2
MaxProcs == 3

(***************************************************************************)
(* Program constants                                                       *)
(***************************************************************************)
NOT_STARTED == "not_started"
RUNNING == "running"
FAILED == "failed"
COMPLETED == "completed"

PEARSON_TEST == "pearson"
SPEARMAN_TEST == "spearman"
ANOVA_TEST == "anova"
T_TEST == "t-test"
STATISTICAL_TESTS == <<PEARSON_TEST, SPEARMAN_TEST, ANOVA_TEST, T_TEST>>

\* Python's None, and the way an exception leaving a function is represented.
None == [none |-> TRUE]
Raised(e) == [raised |-> e]
IsRaised(v) == DOMAIN v = {"raised"}

Range(s) == {s[i] : i \in DOMAIN s}

(***************************************************************************)
(* The tables a session holds (read-only snapshots).                       *)
(*   users_df          index = user ids, one column per feature            *)
(*   brain_volumes_df  index = subjects with a row, columns = regions      *)
(***************************************************************************)
Users == 1..NumUsers

\* Feature columns of users_df: "age" is an int64 column, "group" an object
\* (categorical) column whose values are written as category codes.
filter_columns == <<"age", "group">>
ColumnDtype == [age |-> "int64", group |-> "object"]
ColumnValue(col, u) ==
    IF col = "age" THEN 20 + 10 * (u % 3) ELSE u % 3

BrainRegions == <<"Left-Hippocampus", "lh_precuneus_area">>

\* The region tables a session can have loaded: the full table, the table of
\* a cohort lacking FreeSurfer outputs (no columns, no rows), and a table in
\* which the last subject has no row.
BrainTables ==
    { [columns |-> BrainRegions, index |-> Users],
      [columns |-> <<>>,          index |-> {}],
      [columns |-> BrainRegions, index |-> Users \ {NumUsers}] }

(***************************************************************************)
(* run_analysis.py                                                         *)
(***************************************************************************)
\* str.lower() on the test names that can be passed in.
Lower(s) ==
    CASE s = "PEARSON" -> "pearson"
      [] s = "Spearman" -> "spearman"
      [] s = "ANOVA" -> "anova"
      [] s = "T-Test" -> "t-test"
      [] OTHER -> s

\* users_df.loc[selected_users, selected_feature]: a Series with the dtype
\* of the column; KeyError when the column or a user is missing.
SeriesLoc(selected_users, selected_feature) ==
    IF selected_feature \notin Range(filter_columns) \/ ~(selected_users \subseteq Users)
    THEN Raised("KeyError")
    ELSE [dtype |-> ColumnDtype[selected_feature],
          values |-> [u \in selected_users |-> ColumnValue(selected_feature, u)]]

check_continues_variable(variable) ==
    [is_continuous |-> variable.dtype \in {"int64", "float64"},
     n_unique |-> Cardinality(Range(variable.values))]

\* Variant: anova accepted from two distinct values on.
is_valid_test_anova_from_two(x, test_name) ==
    LET c == check_continues_variable(x)
        t == Lower(test_name)
    IN CASE t = PEARSON_TEST -> c.is_continuous
         [] t = SPEARMAN_TEST -> c.is_continuous
         [] t = T_TEST -> c.n_unique = 2
         [] t = ANOVA_TEST -> c.n_unique >= 2 /\ ~c.is_continuous
         [] OTHER -> FALSE

is_valid_test(x, test_name) ==
    LET c == check_continues_variable(x)
        t == Lower(test_name)
    IN CASE t = PEARSON_TEST -> c.is_continuous
         [] t = SPEARMAN_TEST -> c.is_continuous
         [] t = T_TEST -> c.n_unique = 2
         [] t = ANOVA_TEST -> c.n_unique >= 3 /\ ~c.is_continuous
         [] OTHER -> FALSE

\* What the scipy calls of one run return for a region, as (effect size, p)
\* with p in percent.  The volumes carry np.random.normal noise (line 103),
\* so the statistic of a region is not a function of the inputs: a run
\* draws one outcome per region.
LibStats == { [eff |-> 5, p |-> 4], [eff |-> 0, p |-> 100] }

Fact(n) == IF n <= 1 THEN 1 ELSE IF n = 2 THEN 2 ELSE IF n = 3 THEN 6 ELSE 24

SetMin(S) == CHOOSE m \in S : \A y \in S : m <= y

\* statsmodels multipletests(p_values, method='fdr_bh'), alpha = 0.05:
\* Benjamini-Hochberg.  p_adjusted[i] is the fraction <<num, den>>; the call
\* divides by the number of tests, so an empty list raises.
multipletests(p_values) ==
    LET m == Len(p_values)
        rank(j) == Cardinality({k \in 1..m : p_values[k] <= p_values[j]})
        den == 100 * Fact(m)
        raw(j) == p_values[j] * m * (Fact(m) \div rank(j))
        adj(i) == SetMin({den} \cup {raw(j) : j \in {k \in 1..m : p_values[k] >= p_values[i]}})
    IN IF m = 0 THEN Raised("ZeroDivisionError")
       ELSE [rejected |-> [i \in 1..m |-> adj(i) * 100 <= 5 * den],
             p_adjusted |-> [i \in 1..m |-> <<adj(i), den>>]]

Skip == [skip |-> TRUE]

\* Lines 96-127: the result stored for one region, Raised(..) when the
\* computation of the region raises, or Skip when no branch stores a result.

RegionResult(selected_users, x, brain_volumes_df, statistical_test, stat) ==
    LET c == check_continues_variable(x)
        groups == Range(x.values)
    IN IF ~(selected_users \subseteq brain_volumes_df.index)
       THEN Raised("KeyError")
       ELSE IF c.is_continuous
       THEN CASE statistical_test = PEARSON_TEST ->
                     IF Cardinality(selected_users) < 2
                     THEN Raised("ValueError")
                     ELSE [r |-> stat.eff, p |-> stat.p]
              [] statistical_test = SPEARMAN_TEST -> [r |-> stat.eff, p |-> stat.p]
              [] OTHER -> Skip
       ELSE IF Cardinality(groups) = 2 /\ statistical_test = T_TEST
            THEN [t |-> stat.eff, p |-> stat.p]
            ELSE IF Cardinality(groups) > 2 /\ statistical_test = ANOVA_TEST
            THEN [f |-> stat.eff, p |-> stat.p]
            ELSE [p |-> 100]

\* Variant: the adjusted values are attached in reverse order.
ApplyFdr_reversed(results, keys) ==
    LET p_values == [i \in 1..Len(keys) |-> results[keys[i]].p]
        mt == multipletests(p_values)
        idx(region) == Len(keys) + 1 - (CHOOSE i \in 1..Len(keys) : keys[i] = region)
    IN IF IsRaised(mt) THEN mt
       ELSE [region \in DOMAIN results |->
                results[region] @@ [p_adjusted |-> mt.p_adjusted[idx(region)],
                                    significant |-> mt.rejected[idx(region)]]]

\* Lines 129-138: the FDR step over the results in dict order.
ApplyFdr(results, keys) ==
    LET p_values == [i \in 1..Len(keys) |-> results[keys[i]].p]
        mt == multipletests(p_values)
        idx(region) == CHOOSE i \in 1..Len(keys) : keys[i] = region
    IN IF IsRaised(mt) THEN mt
       ELSE [region \in DOMAIN results |->
                results[region] @@ [p_adjusted |-> mt.p_adjusted[idx(region)],
                                    significant |-> mt.rejected[idx(region)]]]

\* Variant: the loop over the regions stops after the first region.
AnalysisBody_first_region_only(selected_users, selected_feature, apply_fdr, brain_volumes_df, statistical_test, lib) ==
    IF selected_feature = "" \/ selected_users = {} \/ IsRaised(SeriesLoc(selected_users, selected_feature))
    THEN Raised("ValueError")
    ELSE LET x == SeriesLoc(selected_users, selected_feature)
             first == SubSeq(brain_volumes_df.columns, 1, 1)
             res == [i \in 1..Len(first) |-> RegionResult(selected_users, x, brain_volumes_df, statistical_test, lib[i])]
         IN IF \E i \in 1..Len(first) : res[i] = Skip \/ IsRaised(res[i])
            THEN Raised("ValueError")
            ELSE [region \in Range(first) |-> res[1]]

\* Lines 76-145, the body of the try block: the results dict, or Raised(..).
AnalysisBody(selected_users, selected_feature, apply_fdr, brain_volumes_df, statistical_test, lib) ==
    IF selected_feature = ""
    THEN Raised("ValueError")
    ELSE IF selected_users = {}
    THEN Raised("ValueError")
    ELSE LET x == SeriesLoc(selected_users, selected_feature)
             columns == brain_volumes_df.columns
             res(i) == RegionResult(selected_users, x, brain_volumes_df,
                                    statistical_test, lib[i])
             keys == SelectSeq(columns, LAMBDA region :
                        \E i \in 1..Len(columns) : columns[i] = region /\ res(i) # Skip)
             pos(region) == CHOOSE i \in 1..Len(columns) : columns[i] = region
             results == [region \in Range(keys) |-> res(pos(region))]
         IN IF IsRaised(x) THEN x
            ELSE IF \E i \in 1..Len(columns) : res(i) # Skip /\ IsRaised(res(i))
            THEN res(CHOOSE i \in 1..Len(columns) : res(i) # Skip /\ IsRaised(res(i)))
            ELSE IF apply_fdr THEN ApplyFdr(results, keys) ELSE results

\* Variant: no except clause, the exception leaves the function.
perform_statistical_analysis_no_except(selected_users, selected_feature, apply_fdr, brain_volumes_df, statistical_test, lib) ==
    AnalysisBody(selected_users, selected_feature, apply_fdr, brain_volumes_df, statistical_test, lib)

\* Lines 75-152: try / except Exception -> log, notify, return None.
perform_statistical_analysis(selected_users, selected_feature, apply_fdr, brain_volumes_df, statistical_test, lib) ==
    LET body == AnalysisBody(selected_users, selected_feature, apply_fdr,
                             brain_volumes_df, statistical_test, lib)
    IN IF IsRaised(body) THEN None ELSE body

(***************************************************************************)
(* State                                                                   *)
(***************************************************************************)
VARIABLES
    \* SpecStats: the arguments of a call and what the calls returned
    st_args, st_valid, st_result, st_again,
    \* SpecLoad: the three region-volume files and the table loaded from them
    ld_files, ld_result,
    \* SpecView: the region values and the atlas of a rendering, the vertex
    \* textures and the glass-brain points made from them
    vw_region_values, vw_aparc, vw_texture, vw_glass,
    \* SpecPipe: DATA_DIR, the users table (committed), process_file calls
    \* and pipeline processes in flight, the FreeSurfer tables, the number
    \* of processes launched, the step taken last
    folder, users_table, watchers, procs, tables, launched, pipe_event,
    \* SpecUpdate: the existing table file and the new-subjects file of an
    \* update_table call, the file it leaves, the file a second call leaves
    ut_existing, ut_new, ut_result, ut_again,
    \* SpecFilter: the users table of the database when the session starts,
    \* the users_df the session loaded, the values of the filter widgets and
    \* the options of the cohort selector
    uf_db, uf_users_df, uf_widgets, uf_options,
    \* BrainAnalysisApp: data, widgets, params, attributes
    brain_volumes_df,
    name_selector, user_selector, feature_selector, statistical_selector,
    history_selector, history_options,
    selected_name, selected_users, selected_feature, selected_statistical,
    apply_fdr, display_metric, selected_brain_region, current_analysis_name,
    analysis_results, analysis_status, analyses_history,
    brain_display, data_plot, status_indicator,
    \* ANALYSES_DIR (*.pkl, *.txt) and the analysis_results table
    files, txt_files, db_rows,
    \* run_analysis coroutines in flight, the clock, the runs started
    tasks, now, clicks,
    \* the handler that ran last and what it did
    last

statsVars == <<st_args, st_valid, st_result, st_again>>

loadVars == <<ld_files, ld_result>>

viewInVars == <<vw_region_values, vw_aparc, vw_texture, vw_glass>>

pipeVars == <<folder, users_table, watchers, procs, tables, launched, pipe_event>>

tableVars == <<ut_existing, ut_new, ut_result, ut_again>>

filterVars == <<uf_db, uf_users_df, uf_widgets, uf_options>>

widgetVars == <<name_selector, user_selector, feature_selector, statistical_selector, history_selector, history_options>>

paramVars == <<selected_name, selected_users, selected_feature, selected_statistical, apply_fdr, display_metric, selected_brain_region, current_analysis_name>>

attrVars == <<analysis_results, analysis_status, analyses_history>>

viewVars == <<brain_display, data_plot, status_indicator>>

storeVars == <<files, txt_files, db_rows>>

asyncVars == <<tasks, now, clicks>>

dashVars == <<brain_volumes_df, widgetVars, paramVars, attrVars, viewVars, storeVars, asyncVars, last>>

(***************************************************************************)
(* app.py: names, labels, pickle                                           *)
(***************************************************************************)
EmptyStr == [empty |-> TRUE]
Timestamp(t) == [ts |-> t]

\* Line 334: f"{selected_name} - {feature} - {statistical} - {timestamp}"
AnalysisName(name, feature, test, t) ==
    [name |-> name, feature |-> feature, test |-> test, timestamp |-> Timestamp(t)]

\* Lines 333, 335: f"{selected_name}-{feature}-{statistical}-{timestamp_filename}.pkl"
FileName(name, feature, test, t) ==
    [stem |-> <<name, feature, test, t>>, ext |-> "pkl"]

\* Line 463: result_pkl_filepath.replace('.pkl', '.txt')
TxtPath(filename) == [filename EXCEPT !.ext = "txt"]

\* Lines 222-231, 420-429: status glyph + name.
StatusIndicator(status) ==
    CASE status = COMPLETED -> "check"
      [] status = RUNNING -> "play"
      [] status = FAILED -> "cross"
      [] OTHER -> "circle"

Label(status, name) == [glyph |-> StatusIndicator(status), name |-> name]

\* The order in which save_analysis_to_history builds the dict (lines 822-832).
RecordKeys == <<"name", "timestamp", "selected_users", "selected_feature", "selected_statistical", "apply_fdr", "results", "status_run", "timestamp_ended">>

\* pickle.dump of a dict: its items in insertion order; pickle.load rebuilds it.
PickleDump(d) ==
    LET keys == SelectSeq(RecordKeys, LAMBDA k : k \in DOMAIN d)
    IN [i \in 1..Len(keys) |-> <<keys[i], d[keys[i]]>>]

PickleLoad(bytes) ==
    [k \in {bytes[i][1] : i \in DOMAIN bytes} |->
        bytes[CHOOSE i \in DOMAIN bytes : bytes[i][1] = k][2]]

\* dict.get(key, default)
\* Variant: the default whatever the dict holds.
Get_default(d, key, default) == default

Get(d, key, default) == IF key \in DOMAIN d THEN d[key] ELSE default

\* Python truthiness of a results value (None and {} are falsy).
Truthy(results) == results # None /\ DOMAIN results # {}

\* Lines 166-167, 432-436, 847-851: {"Select Analysis": ""} + zip(names, files).
OptionsDict(history) ==
    <<[label |-> [text |-> "Select Analysis"], value |-> EmptyStr]>> \o
    [i \in 1..Len(history[1]) |-> [label |-> history[1][i], value |-> history[2][i]]]

\* Line 784: re.sub(r'[^a-zA-Z0-9]', '', text)
NameChars == {"a", "-"}
IsAlnum(c) == c \in {"a"}

\* Variant: the text is taken as typed.
Sanitize_as_typed(text) == text

Sanitize(text) == SelectSeq(text, IsAlnum)
TypedNames == UNION {[1..n -> NameChars] : n \in 0..MaxNameLen}

(***************************************************************************)
(* app.py: rendering                                                       *)
(***************************************************************************)
EMPTY_GRAPH_MESSEGE == "Waiting for analysis..."
FAILED_GRAPH_MESSEGE == "Analysis failed. Check settings."
RUNNING_GRAPH_MESSEGE == "Analysis is running..."
SELECT_REGION_MESSEGE == "Select an analysis and a brain region to display data"

\* Lines 190-198.
get_metrics_for_test(test_name) ==
    CASE test_name \in {PEARSON_TEST, SPEARMAN_TEST} -> <<"p-value", "r-value">>
      [] test_name = T_TEST -> <<"p-value", "t-value">>
      [] test_name = ANOVA_TEST -> <<"p-value", "f-value">>
      [] OTHER -> <<"p-value">>

\* Lines 794-797, 887-890: the display metric after the options changed.
NewDisplayMetric(metric, test_name) ==
    IF metric \in Range(get_metrics_for_test(test_name))
    THEN metric
    ELSE get_metrics_for_test(test_name)[1]

\* Lines 487-502: one scalar per region; p-values go through -log10.
RegionValue(res, metric, fdr) ==
    CASE metric = "p-value" /\ fdr -> [fn |-> "-log10", of |-> Get(res, "p_adjusted", <<1, 1>>)]
      [] metric = "p-value" /\ ~fdr -> [fn |-> "-log10", of |-> <<Get(res, "p", 100), 100>>]
      [] metric = "r-value" -> [fn |-> "id", of |-> <<Get(res, "r", 0), 1>>]
      [] metric = "t-value" -> [fn |-> "id", of |-> <<Get(res, "t", 0), 1>>]
      [] OTHER -> [fn |-> "id", of |-> <<Get(res, "f", 0), 1>>]

\* Lines 542-560 with view_type "3D Interactive": a placeholder while there
\* are no results, else the region values handed to the brain plot.
create_brain_view(results, status, metric, fdr) ==
    IF results = None
    THEN [message |-> IF status = RUNNING THEN RUNNING_GRAPH_MESSEGE ELSE EMPTY_GRAPH_MESSEGE]
    ELSE [region_values |-> [region \in DOMAIN results |-> RegionValue(results[region], metric, fdr)]]

\* Lines 635-730: the figure of the data plot, or Raised(..) when a lookup fails.
create_data_plot(region, users, feature, status, results, table) ==
    IF region = "" \/ users = {}
    THEN [message |-> SELECT_REGION_MESSEGE]
    ELSE IF status = RUNNING THEN [message |-> RUNNING_GRAPH_MESSEGE]
    ELSE IF status = FAILED THEN [message |-> FAILED_GRAPH_MESSEGE]
    ELSE IF IsRaised(SeriesLoc(users, feature)) \/ ~(users \subseteq table.index) \/ region \notin Range(table.columns)
    THEN Raised("KeyError")
    ELSE IF SeriesLoc(users, feature).dtype \in {"int64", "float64"}
    THEN [plot |-> "scatter", region |-> region, feature |-> feature, users |-> users,
          regression |-> IF Truthy(results) /\ region \in DOMAIN results
                         THEN <<Get(results[region], "r", 0), Get(results[region], "p", 100)>>
                         ELSE <<>>]
    ELSE [plot |-> "box", region |-> region, feature |-> feature, users |-> users, regression |-> <<>>]

(***************************************************************************)
(* app.py: the session (BrainAnalysisApp)                                  *)
(***************************************************************************)
\* What the user of the session picks in the widgets, and the statistics the
\* worker draws.
Features == {"age"}
TestOptions == {PEARSON_TEST, T_TEST}
Cohorts == {1..2}
SessionTables == {[columns |-> BrainRegions, index |-> Users]}
WorkerStats == {[eff |-> 5, p |-> 4]}

\* The handler that ran last: its name, the record file it worked on, how it
\* ended, the results value it handled and the notification it showed
\* (pn.state.notifications; "" for none).  Handlers that only change widgets
\* or display settings leave Idle.
Event(op, file, outcome, result, notification) == [op |-> op, file |-> file, outcome |-> outcome, result |-> result, notification |-> notification]
Idle == Event("idle", EmptyStr, "", None, "")

\* Lines 77-99, 108-188: the state after construction, ANALYSES_DIR empty.
InitDash ==
    /\ brain_volumes_df \in SessionTables
    /\ name_selector = <<>>
    /\ user_selector = {}
    /\ feature_selector = ""
    /\ statistical_selector = ""
    /\ history_selector = EmptyStr
    /\ analyses_history = <<(<<>>), (<<>>)>>
    /\ history_options = OptionsDict(analyses_history)
    /\ selected_name = <<>>
    /\ selected_users = {}
    /\ selected_feature = ""
    /\ selected_statistical = ""
    /\ apply_fdr = TRUE
    /\ display_metric = "p-value"
    /\ selected_brain_region = ""
    /\ current_analysis_name = EmptyStr
    /\ analysis_results = None
    /\ analysis_status = NOT_STARTED
    /\ brain_display = create_brain_view(None, NOT_STARTED, "p-value", TRUE)
    /\ data_plot = [message |-> EMPTY_GRAPH_MESSEGE]
    /\ status_indicator = ""
    /\ files = <<>>
    /\ txt_files = <<>>
    /\ db_rows = <<>>
    /\ tasks = <<>>
    /\ now = 0
    /\ clicks = 0
    /\ last = Idle

\* Lines 782-786: typing into the name field.
on_name_change(text) ==
    /\ text # name_selector
    /\ name_selector' = text
    /\ selected_name' = Sanitize(text)
    /\ last' = Idle
    /\ UNCHANGED <<brain_volumes_df, user_selector, feature_selector, statistical_selector, history_selector, history_options>>
    /\ UNCHANGED <<selected_users, selected_feature, selected_statistical, apply_fdr, display_metric, selected_brain_region, current_analysis_name>>
    /\ UNCHANGED <<attrVars, viewVars, storeVars, asyncVars>>

\* Lines 113-118: picking the cohort in the MultiChoice widget (no callback).
select_users(cohort) ==
    /\ cohort # user_selector
    /\ user_selector' = cohort
    /\ last' = Idle
    /\ UNCHANGED <<brain_volumes_df, name_selector, feature_selector, statistical_selector, history_selector, history_options>>
    /\ UNCHANGED <<paramVars, attrVars, viewVars, storeVars, asyncVars>>

\* Lines 777-780.
on_feature_change(new) ==
    /\ new # feature_selector
    /\ feature_selector' = new
    /\ selected_feature' = new
    /\ last' = Idle
    /\ UNCHANGED <<brain_volumes_df, name_selector, user_selector, statistical_selector, history_selector, history_options>>
    /\ UNCHANGED <<selected_name, selected_users, selected_statistical, apply_fdr, display_metric, selected_brain_region, current_analysis_name>>
    /\ UNCHANGED <<attrVars, viewVars, storeVars, asyncVars>>

\* Lines 812-816: a changed display setting redraws the brain view when
\* there are results.
RedrawnBrain(changed, results, status, metric, fdr) ==
    IF changed /\ Truthy(results)
    THEN create_brain_view(results, status, metric, fdr)
    ELSE brain_display

\* Lines 788-797.
on_statistical_change(new) ==
    /\ new # statistical_selector
    /\ statistical_selector' = new
    /\ selected_statistical' = new
    /\ display_metric' = NewDisplayMetric(display_metric, new)
    /\ brain_display' = RedrawnBrain(display_metric' # display_metric, analysis_results, analysis_status, display_metric', apply_fdr)
    /\ last' = Idle
    /\ UNCHANGED <<brain_volumes_df, name_selector, user_selector, feature_selector, history_selector, history_options>>
    /\ UNCHANGED <<selected_name, selected_users, selected_feature, apply_fdr, selected_brain_region, current_analysis_name>>
    /\ UNCHANGED <<attrVars, data_plot, status_indicator, storeVars, asyncVars>>

\* Lines 939-947, 812-816: the FDR checkbox.
toggle_apply_fdr ==
    /\ apply_fdr' = ~apply_fdr
    /\ brain_display' = RedrawnBrain(TRUE, analysis_results, analysis_status, display_metric, apply_fdr')
    /\ last' = Idle
    /\ UNCHANGED <<brain_volumes_df, widgetVars>>
    /\ UNCHANGED <<selected_name, selected_users, selected_feature, selected_statistical, display_metric, selected_brain_region, current_analysis_name>>
    /\ UNCHANGED <<attrVars, data_plot, status_indicator, storeVars, asyncVars>>

\* The clock behind datetime.now() (one-second resolution).  It is the wall
\* clock of the timestamps only: no step of a run waits for it.
tick ==
    /\ now < MaxTime
    /\ now' = now + 1
    /\ last' = Idle
    /\ UNCHANGED <<brain_volumes_df, widgetVars, paramVars, attrVars, viewVars, storeVars>>
    /\ UNCHANGED <<tasks, clicks>>

\* Lines 818-855: the record written when a run starts, the history list
\* entry (appended, or relabelled when the filename is already listed).
BeginRecord(analysis_name, timestamp, users, feature, test) ==
    [name |-> analysis_name, timestamp |-> Timestamp(timestamp), selected_users |-> users,
     selected_feature |-> feature, selected_statistical |-> test, apply_fdr |-> apply_fdr,
     results |-> analysis_results, status_run |-> RUNNING, timestamp_ended |-> None]

IndexOf(seq, x) == CHOOSE i \in 1..Len(seq) : seq[i] = x /\ \A j \in 1..(i - 1) : seq[j] # x

\* Variant: the entry is appended without looking for the filename.
HistoryAfterBegin_always_append(history, analysis_name, filename) ==
    <<Append(history[1], Label(RUNNING, analysis_name)), Append(history[2], filename)>>

HistoryAfterBegin(history, analysis_name, filename) ==
    IF filename \notin Range(history[2])
    THEN <<Append(history[1], Label(RUNNING, analysis_name)), Append(history[2], filename)>>
    ELSE <<[history[1] EXCEPT ![IndexOf(history[2], filename)] = Label(RUNNING, analysis_name)], history[2]>>

\* Variant: the completion leaves the labels as they are.
HistoryAfterComplete_no_relabel(history, filename, selected_analysis, status) == history

\* Lines 413-437: relabel the entry of filename, if it is listed.
HistoryAfterComplete(history, filename, selected_analysis, status) ==
    IF filename \in Range(history[2])
    THEN <<[history[1] EXCEPT ![IndexOf(history[2], filename)] = Label(status, Get(selected_analysis, "name", [text |-> "Unknown"]))], history[2]>>
    ELSE history

\* Lines 290-330: why run_analysis stops before starting a run: the message
\* of its notification, "raised" for the KeyError of line 308, "" to go on.
RunRejection(users, feature, test, name) ==
    IF users = {} THEN "Please select users for analysis"
    ELSE IF IsRaised(SeriesLoc(users, feature)) THEN "raised"
    ELSE IF ~is_valid_test(SeriesLoc(users, feature), test) THEN "Statistical test is not valid for feature"
    ELSE IF name = <<>> THEN "Please provide a name for the analysis"
    ELSE IF feature = "" THEN "Please select a feature for analysis"
    ELSE IF test = "" THEN "Please select a statistical test for analysis"
    ELSE ""

\* Lines 290-377: the click on Execute Analysis, up to the await.  cap bounds
\* the number of runs a session starts.
run_analysis(cap) ==
    /\ LET id == clicks + 1
           analysis_users == user_selector
           analysis_feature == feature_selector
           analysis_statistical == statistical_selector
           why == RunRejection(analysis_users, analysis_feature, analysis_statistical, selected_name)
           analysis_name == AnalysisName(selected_name, analysis_feature, analysis_statistical, now)
           filename == FileName(selected_name, analysis_feature, analysis_statistical, now)
       IN IF why = "raised"
          THEN /\ last' = Event("run_analysis", EmptyStr, "raised", None, "")
               /\ UNCHANGED <<brain_volumes_df, widgetVars, paramVars, attrVars, viewVars, storeVars, asyncVars>>
          ELSE IF why # ""
          THEN /\ last' = Event("run_analysis", EmptyStr, "rejected", None, why)
               /\ UNCHANGED <<brain_volumes_df, widgetVars, paramVars, attrVars, viewVars, storeVars, asyncVars>>
          ELSE /\ clicks < cap
               /\ clicks' = clicks + 1
               /\ analyses_history' = HistoryAfterBegin(analyses_history, analysis_name, filename)
               /\ history_options' = OptionsDict(analyses_history')
               /\ files' = (filename :> PickleDump(BeginRecord(analysis_name, now, analysis_users, analysis_feature, analysis_statistical))) @@ files
               /\ analysis_status' = RUNNING
               /\ current_analysis_name' = analysis_name
               /\ status_indicator' = "Running..."
               /\ name_selector' = <<>>
               /\ selected_name' = <<>>
               /\ statistical_selector' = ""
               /\ selected_statistical' = ""
               /\ display_metric' = NewDisplayMetric(display_metric, "")
               /\ brain_display' = RedrawnBrain(display_metric' # display_metric, analysis_results, RUNNING, display_metric', apply_fdr)
               /\ user_selector' = {}
               /\ feature_selector' = ""
               /\ selected_feature' = ""
               /\ tasks' = (id :> [pc |-> "awaiting", filename |-> filename, analysis_name |-> analysis_name,
                                   analysis_users |-> analysis_users, analysis_feature |-> analysis_feature,
                                   analysis_statistical |-> analysis_statistical, timestamp |-> now,
                                   apply_fdr |-> apply_fdr, results |-> None]) @@ tasks
               /\ last' = Event("run_analysis", filename, "dispatched", None, "Analysis started! Please wait...")
               /\ UNCHANGED <<brain_volumes_df, history_selector, selected_users, apply_fdr, selected_brain_region>>
               /\ UNCHANGED <<analysis_results, data_plot, txt_files, db_rows, now>>

\* Lines 367-377: the worker process runs perform_statistical_analysis on the
\* arguments it was handed and the future gets its result.
worker_returns(id) ==
    /\ id \in DOMAIN tasks
    /\ tasks[id].pc = "awaiting"
    /\ \E lib \in [1..Len(brain_volumes_df.columns) -> WorkerStats] :
          LET t == tasks[id]
              results == perform_statistical_analysis(t.analysis_users, t.analysis_feature, t.apply_fdr, brain_volumes_df, t.analysis_statistical, lib)
          IN /\ tasks' = [tasks EXCEPT ![id] = [t EXCEPT !.pc = "returned", !.results = results]]
             /\ last' = Event("worker_returns", t.filename, "", results, "")
    /\ UNCHANGED <<brain_volumes_df, widgetVars, paramVars, attrVars, viewVars, storeVars>>
    /\ UNCHANGED <<now, clicks>>

\* Lines 398-405: results, status and end time merged into the record.
update_pickle_result_file(selected_analysis, results, status) ==
    [k \in DOMAIN selected_analysis \cup {"results", "status_run", "timestamp_ended"} |->
        CASE k = "results" -> results
          [] k = "status_run" -> status
          [] k = "timestamp_ended" -> Timestamp(now)
          [] OTHER -> selected_analysis[k]]

\* Lines 439-456: the row added to the analysis_results table.
DbRow(t, status) ==
    [analysis_name |-> t.analysis_name, selected_users |-> t.analysis_users,
     selected_feature |-> t.analysis_feature, selected_statistical |-> t.analysis_statistical,
     results |-> TxtPath(t.filename), status |-> status, timestamp |-> Timestamp(t.timestamp)]

\* Variant: "if results is not None" in place of "if results".
CompletionStatus_not_none(results) == IF results # None THEN COMPLETED ELSE FAILED

\* Lines 387-396: what run_analysis saves for the value the worker returned.
CompletionStatus(results) == IF Truthy(results) THEN COMPLETED ELSE FAILED

CompletionResults(results) == IF Truthy(results) THEN results ELSE <<>>

\* Variant: the coroutine goes on without waiting for the future.
AwaitDone_not_awaited(t) == TRUE

\* Lines 370-379: the await of run_in_executor ends when the future of the
\* worker has its result.
AwaitDone(t) == t.pc = "returned"

\* Lines 379-396 with save_analysis_results (458-478): run_analysis resumes
\* after the await.
resume_run_analysis(id) ==
    /\ id \in DOMAIN tasks
    /\ AwaitDone(tasks[id])
    /\ LET t == tasks[id]
           status == CompletionStatus(t.results)
           results == CompletionResults(t.results)
           found == t.filename \in DOMAIN files
           selected_analysis == IF found THEN PickleLoad(files[t.filename]) ELSE <<>>
           updated == update_pickle_result_file(selected_analysis, results, status)
       IN /\ status_indicator' = ""
          /\ files' = (t.filename :> PickleDump(updated)) @@ files
          /\ txt_files' = (TxtPath(t.filename) :> PickleDump(updated)) @@ txt_files
          /\ analyses_history' = HistoryAfterComplete(analyses_history, t.filename, updated, status)
          /\ history_options' = OptionsDict(analyses_history')
          /\ db_rows' = Append(db_rows, DbRow(t, status))
          /\ tasks' = [i \in DOMAIN tasks \ {id} |-> tasks[i]]
          /\ last' = Event("resume_run_analysis", t.filename, status, t.results, IF status = COMPLETED THEN "Analysis completed successfully!" ELSE "Analysis failed. Check settings.")
    /\ UNCHANGED <<brain_volumes_df, name_selector, user_selector, feature_selector, statistical_selector, history_selector>>
    /\ UNCHANGED <<paramVars, analysis_results, analysis_status, brain_display, data_plot>>
    /\ UNCHANGED <<now, clicks>>

\* Lines 352, 772-775: the three-second timer clears the indicator.  While
\* the indicator shows, the timer of the run that set it is pending (a
\* resume cancels that timer and clears the indicator in one step); a timer
\* that fires with the indicator already cleared changes nothing.
clear_running_indicator_after_delay ==
    /\ status_indicator # ""
    /\ status_indicator' = ""
    /\ last' = Idle
    /\ UNCHANGED <<brain_volumes_df, widgetVars, paramVars, attrVars, storeVars, asyncVars>>
    /\ UNCHANGED <<brain_display, data_plot>>

\* Lines 865-903: picking an entry of the history selector.
load_previous_analysis(new) ==
    /\ new \in {history_options[i].value : i \in DOMAIN history_options}
    /\ new # history_selector
    /\ history_selector' = new
    /\ IF new = EmptyStr
       THEN /\ last' = Idle
            /\ UNCHANGED <<paramVars, attrVars, viewVars>>
       ELSE LET selected_analysis == PickleLoad(files[new])
                users == Get(selected_analysis, "selected_users", {})
                feature == Get(selected_analysis, "selected_feature", "")
                test == Get(selected_analysis, "selected_statistical", PEARSON_TEST)
                fdr == Get(selected_analysis, "apply_fdr", TRUE)
                results == Get(selected_analysis, "results", None)
                status == Get(selected_analysis, "status_run", NOT_STARTED)
                metric == NewDisplayMetric(display_metric, test)
                fig == create_data_plot(selected_brain_region, users, feature, status, results, brain_volumes_df)
            IN /\ current_analysis_name' = Get(selected_analysis, "name", EmptyStr)
               /\ selected_users' = users
               /\ selected_feature' = feature
               /\ selected_statistical' = test
               /\ apply_fdr' = fdr
               /\ analysis_results' = results
               /\ analysis_status' = status
               /\ display_metric' = metric
               /\ brain_display' = create_brain_view(results, status, metric, fdr)
               /\ data_plot' = IF IsRaised(fig) THEN data_plot ELSE fig
               /\ last' = Event("load_previous_analysis", new, IF IsRaised(fig) THEN "raised" ELSE "loaded", results, IF IsRaised(fig) THEN "" ELSE "Loaded analysis")
               /\ UNCHANGED <<selected_name, selected_brain_region, analyses_history, status_indicator>>
    /\ UNCHANGED <<brain_volumes_df, name_selector, user_selector, feature_selector, statistical_selector, history_options>>
    /\ UNCHANGED <<storeVars, asyncVars>>

(***************************************************************************)
(* run_analysis.py applied to bounded inputs                               *)
(***************************************************************************)
Pending == [pending |-> TRUE]

\* Test names a caller can pass: the four names, other spellings of them,
\* the empty selection and a name of no test.
StatsTestNames == Range(STATISTICAL_TESTS) \cup {"", "PEARSON", "T-Test", "ANOVA", "chi2"}

\* The features passed in: the columns, no selection, a column the table lacks.
StatsInputs ==
    [selected_users : SUBSET Users, selected_feature : Range(filter_columns) \cup {"", "height"},
     apply_fdr : BOOLEAN, brain_volumes_df : BrainTables, statistical_test : StatsTestNames]

InitStats ==
    /\ st_args \in StatsInputs
    /\ st_valid = "unset"
    /\ st_result = Pending
    /\ st_again = Pending

\* app.py lines 308-309: the lookup of the feature column and is_valid_test.
call_is_valid_test ==
    /\ st_valid = "unset"
    /\ LET x == SeriesLoc(st_args.selected_users, st_args.selected_feature)
       IN st_valid' = IF IsRaised(x) THEN "KeyError"
                      ELSE IF is_valid_test(x, st_args.statistical_test) THEN "accept" ELSE "reject"
    /\ UNCHANGED <<st_args, st_result, st_again>>

\* One call of perform_statistical_analysis; lib is what scipy returns for
\* each region.
call_perform_statistical_analysis(lib) ==
    /\ st_result = Pending
    /\ st_result' = perform_statistical_analysis(st_args.selected_users, st_args.selected_feature, st_args.apply_fdr,
                                                 st_args.brain_volumes_df, st_args.statistical_test, lib)
    /\ UNCHANGED <<st_args, st_valid, st_again>>

\* A second call with the same arguments; lib is what scipy returns this
\* time.
call_perform_statistical_analysis_again(lib) ==
    /\ st_result # Pending
    /\ st_again = Pending
    /\ st_again' = perform_statistical_analysis(st_args.selected_users, st_args.selected_feature, st_args.apply_fdr,
                                                st_args.brain_volumes_df, st_args.statistical_test, lib)
    /\ UNCHANGED <<st_args, st_valid, st_result>>

(***************************************************************************)
(* data_loaders.py: load_brain_volumes_data applied to bounded inputs      *)
(***************************************************************************)
\* ASEG_DF, APARC_LH_DF, APARC_RH_DF (lines 25-27) with the column that
\* becomes the index of each, and the other columns the FreeSurfer table
\* commands write; BrainSegVolNotVent and eTIV are in more than one table.
VolumeFiles == <<"ASEG_DF", "APARC_LH_DF", "APARC_RH_DF">>
IndexCol == <<"Measure:volume", "lh.aparc.area", "rh.aparc.area">>
FileColumns ==
    << <<"Left-Hippocampus", "BrainSegVolNotVent">>,
       <<"lh_precuneus_area", "BrainSegVolNotVent", "eTIV">>,
       <<"rh_precuneus_area", "BrainSegVolNotVent", "eTIV">> >>

\* A file of the three: missing, of size zero, or a table with a row per
\* subject of rows.
MissingFile == [exists |-> FALSE, size |-> 0, rows |-> {}]
EmptyFile == [exists |-> TRUE, size |-> 0, rows |-> {}]
TableFile(rows) == [exists |-> TRUE, size |-> 1 + Cardinality(rows), rows |-> rows]
FileStates == {MissingFile, EmptyFile} \cup {TableFile(rows) : rows \in SUBSET Users}

\* pd.read_csv(file_path): the columns in file order, each a column of the
\* file i it was read from.
read_csv(file, i) ==
    [index |-> 1..Cardinality(file.rows),
     columns |-> <<[name |-> IndexCol[i], from |-> i, rows |-> file.rows]>> \o
                 [j \in 1..Len(FileColumns[i]) |-> [name |-> FileColumns[i][j], from |-> i, rows |-> file.rows]]]

\* DataFrame.set_index(col): the column leaves the columns and its values
\* become the index; KeyError without such a column.
set_index(df, col) ==
    IF \A j \in 1..Len(df.columns) : df.columns[j].name # col
    THEN Raised("KeyError")
    ELSE [index |-> UNION {df.columns[j].rows : j \in {k \in 1..Len(df.columns) : df.columns[k].name = col}},
          columns |-> SelectSeq(df.columns, LAMBDA c : c.name # col)]

\* Lines 18-23.
safe_read(file, i, index_col) ==
    IF file.exists /\ file.size > 0
    THEN set_index(read_csv(file, i), index_col)
    ELSE set_index([index |-> {}, columns |-> <<[name |-> "file_name", from |-> i, rows |-> {}]>>], "file_name")

\* pd.concat(frames, axis=1): the union of the indexes, the columns side by
\* side.
concat(frames) ==
    [index |-> UNION {frames[i].index : i \in 1..Len(frames)},
     columns |-> frames[1].columns \o frames[2].columns \o frames[3].columns]

\* Variant: Index.duplicated(keep='last').
duplicated_keep_last(columns) ==
    [j \in 1..Len(columns) |-> \E k \in (j + 1)..Len(columns) : columns[k].name = columns[j].name]

\* Index.duplicated(): TRUE for every occurrence of a name but the first.
duplicated(columns) ==
    [j \in 1..Len(columns) |-> \E k \in 1..(j - 1) : columns[k].name = columns[j].name]

\* df.loc[:, mask]: the columns whose mask entry is TRUE, in order.
LocColumns(df, mask) ==
    LET kept == {j \in 1..Len(df.columns) : mask[j]}
        nth(n) == CHOOSE j \in kept : Cardinality({k \in kept : k < j}) = n - 1
    IN [index |-> df.index, columns |-> [n \in 1..Cardinality(kept) |-> df.columns[nth(n)]]]

\* Lines 12-30.
load_brain_volumes_data(volume_files) ==
    LET frames == [i \in 1..3 |-> safe_read(volume_files[i], i, IndexCol[i])]
    IN IF \E i \in 1..3 : IsRaised(frames[i])
       THEN frames[CHOOSE i \in 1..3 : IsRaised(frames[i])]
       ELSE LET df == concat(frames)
                dup == duplicated(df.columns)
            IN LocColumns(df, [j \in 1..Len(df.columns) |-> ~dup[j]])

InitLoadIdle ==
    /\ ld_files = None
    /\ ld_result = None

InitLoad ==
    /\ ld_files \in [1..3 -> FileStates]
    /\ ld_result = Pending

call_load_brain_volumes_data ==
    /\ ld_result = Pending
    /\ ld_result' = load_brain_volumes_data(ld_files)
    /\ UNCHANGED ld_files

(***************************************************************************)
(* atlas_utils.py, brain_visualization.py, app.py 572-607: region values   *)
(* to vertices and to glass-brain points, applied to bounded inputs        *)
(***************************************************************************)
NumVertices == 2
MaxRegionValues == 2

\* Region names as the region table has them: cortical areas with and
\* without the _area suffix, a subcortical volume, a summary measure.
RegionNames == {"lh_precuneus_area", "lh_precuneus", "rh_precuneus", "Left-Hippocampus", "eTIV"}

\* brain_visualization.py line 407: region_name.replace('_area', '')
StripArea(region_name) == IF region_name = "lh_precuneus_area" THEN "lh_precuneus" ELSE region_name

\* atlas_utils.py lines 6-75: 0 for the summary measures and for every name
\* the dict lacks; the right hemisphere is the left plus 74.
get_aparc_to_destrieux_mapping(aparc_label) ==
    CASE aparc_label \in {"BrainSegVolNotVent", "eTIV"} -> 0
      [] aparc_label = "lh_precuneus" -> 42
      [] aparc_label = "rh_precuneus" -> 42 + 74
      [] OTHER -> 0

\* atlas_utils.py lines 77-131.
Coordinates(x, y, z) == [x |-> x, y |-> y, z |-> z]
get_coordinates_for_region(region) ==
    CASE region = "Left-Hippocampus" -> Coordinates(-28, -18, -16)
      [] region = "lh_precuneus" -> Coordinates(-10, -65, 40)
      [] region = "rh_precuneus" -> Coordinates(10, -65, 40)
      [] OTHER -> None

\* fetch_atlas_surf_destrieux(): a label index per vertex of each
\* hemisphere; index 0 is the label 'Unknown' of the atlas.
VertexLabels == {0, 42}
Atlases == [map_left : [1..NumVertices -> VertexLabels], map_right : [1..NumVertices -> VertexLabels]]

\* A region_values dict: its items in insertion order, no region twice.
RegionValues ==
    {rv \in UNION {[1..n -> [region : RegionNames, value : 1..2]] : n \in 0..MaxRegionValues} :
        \A i, j \in 1..Len(rv) : rv[i].region = rv[j].region => i = j}

\* brain_visualization.py line 412: texture[labels == region_idx] = value
PaintRegion(texture, labels, region_idx, value) ==
    [v \in DOMAIN texture |-> IF labels[v] = region_idx THEN value ELSE texture[v]]

\* brain_visualization.py lines 396-414: the texture after the first n items.
RECURSIVE TextureAfter(_, _, _)
TextureAfter(region_values, labels, n) ==
    IF n = 0 THEN [v \in DOMAIN labels |-> 0]
    ELSE PaintRegion(TextureAfter(region_values, labels, n - 1), labels,
                     get_aparc_to_destrieux_mapping(StripArea(region_values[n].region)),
                     region_values[n].value)

map_values_to_vertices(region_values, aparc, hemisphere) ==
    LET labels == IF hemisphere = "left" THEN aparc.map_left ELSE aparc.map_right
    IN TextureAfter(region_values, labels, Len(region_values))

\* app.py lines 573-581: the points handed to the glass-brain views.
GlassPoints(region_values) ==
    LET kept == SelectSeq(region_values, LAMBDA item : get_coordinates_for_region(item.region) # None)
    IN [i \in 1..Len(kept) |-> [coords |-> get_coordinates_for_region(kept[i].region),
                                value |-> kept[i].value, name |-> kept[i].region]]

InitViewIdle ==
    /\ vw_region_values = None
    /\ vw_aparc = None
    /\ vw_texture = None
    /\ vw_glass = None

InitView ==
    /\ vw_region_values \in RegionValues
    /\ vw_aparc \in Atlases
    /\ vw_texture = Pending
    /\ vw_glass = Pending

\* brain_visualization.py lines 91-92 (and 43, 61): the two textures of a
\* mesh view.
call_map_values_to_vertices ==
    /\ vw_texture = Pending
    /\ vw_texture' = [left |-> map_values_to_vertices(vw_region_values, vw_aparc, "left"),
                      right |-> map_values_to_vertices(vw_region_values, vw_aparc, "right")]
    /\ UNCHANGED <<vw_region_values, vw_aparc, vw_glass>>

\* app.py lines 572-607: the glass-brain branch of create_brain_view.
call_glass_brain_view ==
    /\ vw_glass = Pending
    /\ vw_glass' = IF GlassPoints(vw_region_values) # <<>>
                   THEN [points |-> GlassPoints(vw_region_values)]
                   ELSE [message |-> "No coordinates for current regions"]
    /\ UNCHANGED <<vw_region_values, vw_aparc, vw_texture>>

(***************************************************************************)
(* data_loaders.py, app.py: the subjects a session offers                  *)
(***************************************************************************)
\* A missing characteristic after the left join of lines 53-58.
NaN == -1

\* The rows of the users table: the status, and the characteristics the
\* join adds, a numeric one and a categorical one.
LoadStatuses == {"freesurfer_completed", "update_table_completed"}
AgeValues == {20, 30}
GroupValues == {"a", "b"}
DbUserRows == [status : LoadStatuses, age : AgeValues \cup {NaN}, group : GroupValues]

\* Variant: SELECT * FROM users, without the WHERE clause.
load_users_data_any_status(db) == db

\* data_loaders.py lines 34-63: the rows with status update_table_completed,
\* indexed by user_id.
load_users_data(db) ==
    [user_id \in {u \in DOMAIN db : db[u].status = "update_table_completed"} |-> db[user_id]]

\* min_val <= x <= max_val; False when x is NaN.
Between(min_val, x, max_val) == x # NaN /\ min_val <= x /\ x <= max_val

\* Series.min() / Series.max() skip NaN.
Ages(users_df) == {users_df[u].age : u \in DOMAIN users_df} \ {NaN}
AgeMin(users_df) == CHOOSE a \in Ages(users_df) : \A b \in Ages(users_df) : a <= b
AgeMax(users_df) == CHOOSE a \in Ages(users_df) : \A b \in Ages(users_df) : a >= b

\* app.py lines 238-262: a RangeSlider over the whole range of a numeric
\* column, a MultiSelect with every value of another column selected.
create_user_filters(users_df) ==
    [age |-> IF Ages(users_df) = {} THEN <<NaN, NaN>> ELSE <<AgeMin(users_df), AgeMax(users_df)>>,
     group |-> {users_df[u].group : u \in DOMAIN users_df}]

\* Lines 273-287: the users that pass every filter widget.
filtered_users(users_df, widgets) ==
    {user \in DOMAIN users_df :
        /\ Between(widgets.age[1], users_df[user].age, widgets.age[2])
        /\ users_df[user].group \in widgets.group}

InitFilterIdle ==
    /\ uf_db = None
    /\ uf_users_df = None
    /\ uf_widgets = None
    /\ uf_options = None

\* The users table a session finds when it starts.
InitFilter ==
    /\ uf_db \in [Users -> DbUserRows]
    /\ uf_users_df = Pending
    /\ uf_widgets = Pending
    /\ uf_options = Pending

\* Lines 84, 102-118: the session loads users_df and builds the filter
\* widgets and the cohort selector.
construct_session ==
    /\ uf_widgets = Pending
    /\ uf_users_df' = load_users_data(uf_db)
    /\ uf_widgets' = create_user_filters(uf_users_df')
    /\ uf_options' = DOMAIN uf_users_df'
    /\ UNCHANGED uf_db

\* Lines 269-288: a filter widget gets a new value.
update_filtered_users(col, value) ==
    /\ uf_widgets # Pending
    /\ uf_widgets[col] # value
    /\ uf_widgets' = [uf_widgets EXCEPT ![col] = value]
    /\ uf_options' = filtered_users(uf_users_df, uf_widgets')
    /\ UNCHANGED <<uf_db, uf_users_df>>

\* Line 901: load_previous_analysis puts every loaded user back into the
\* selector, whatever the filters say.
load_previous_analysis_user_options ==
    /\ uf_widgets # Pending
    /\ uf_options' = DOMAIN uf_users_df
    /\ UNCHANGED <<uf_db, uf_users_df, uf_widgets>>

(***************************************************************************)
(* admin_app.py, watch_folder.py, freesurfer.py: the pipeline              *)
(***************************************************************************)
USER_STATUS_PREPROCESSED == "preprocessed"
USER_STATUS_FREESURFER_PROCESSING == "freesurfer_processing"
USER_STATUS_FREESURFER_COMPLETED == "freesurfer_completed"
USER_STATUS_FREESURFER_FAILED == "freesurfer_failed"
USER_STATUS_UPDATE_TABLE_PROCESSING == "update_table_processing"
USER_STATUS_UPDATE_TABLE_COMPLETED == "update_table_completed"
USER_STATUS_UPDATE_TABLE_FAILED == "update_table_failed"

\* File names are a stem and its suffixes: s1.nii, s1.nii.gz, s2.nii.
DataFiles ==
    { [stem |-> "s1", suffixes |-> <<".nii">>],
      [stem |-> "s1", suffixes |-> <<".nii", ".gz">>],
      [stem |-> "s2", suffixes |-> <<".nii">>],
      [stem |-> "s1", suffixes |-> <<".json">>] }

\* What else shows up in DATA_DIR: a file whose name starts with '.', and a
\* sub-directory.
HiddenFiles == { [stem |-> ".DS_Store", suffixes |-> <<>>] }
Directories == { [stem |-> "derivatives", suffixes |-> <<>>] }
FolderEntries == DataFiles \cup HiddenFiles \cup Directories

\* os.path.isfile (line 67) / not event.is_directory (lines 20, 25).
IsFile(path) == path \notin Directories

\* Line 40: filename.startswith('.')
StartsWithDot(filename) == filename.stem \in {".DS_Store"}

\* watch_folder.py line 51: os.path.splitext drops the last suffix.
Splitext(filename) ==
    IF filename.suffixes = <<>> THEN filename
    ELSE [filename EXCEPT !.suffixes = SubSeq(filename.suffixes, 1, Len(filename.suffixes) - 1)]

\* freesurfer.py line 28: the file name without any of its suffixes.
SubjectName(file_name) == [file_name EXCEPT !.suffixes = <<>>]

\* User.query.filter_by(file_name=..).first(): the user ids of the rows found.
QueryByFileName(table, file_name) == {id \in DOMAIN table : table[id].file_name = file_name}

\* admin_app.py lines 359-370: the subjects offered for each stage.
users_for_freesurfer == {id \in DOMAIN users_table : users_table[id].status \in {USER_STATUS_PREPROCESSED, USER_STATUS_FREESURFER_FAILED}}

users_for_update_table == {id \in DOMAIN users_table : users_table[id].status \in {USER_STATUS_FREESURFER_COMPLETED, USER_STATUS_UPDATE_TABLE_FAILED}}

\* aseg, aparc lh, aparc rh (freesurfer.py lines 125-129).
TableNames == <<"ASEG_DF", "APARC_LH_DF", "APARC_RH_DF">>

\* A table file: a header line and one line per row; a row is the subject
\* identifier in the first column and the measures after it.
Row(subject, measure) == [id_col |-> subject, measure |-> measure]
NoCsv == [exists |-> FALSE, size |-> 0, table |-> <<>>]
EmptyCsv == [exists |-> TRUE, size |-> 0, table |-> <<>>]
Csv(table) == [exists |-> TRUE, size |-> 1 + Len(table), table |-> table]

PipeEvent(op, stage, file_name, outcome) == [op |-> op, stage |-> stage, file_name |-> file_name, outcome |-> outcome]
PipeIdle == PipeEvent("idle", "", EmptyStr, "")

InitPipe ==
    /\ folder = {}
    /\ users_table = <<>>
    /\ watchers = {}
    /\ procs = <<>>
    /\ tables = [i \in 1..Len(TableNames) |-> NoCsv]
    /\ launched = 0
    /\ pipe_event = PipeIdle

\* An entry appears in DATA_DIR.
file_arrives(f) ==
    /\ f \notin folder
    /\ folder' = folder \cup {f}
    /\ pipe_event' = PipeIdle
    /\ UNCHANGED <<users_table, watchers, procs, tables, launched>>

\* The processes that call process_file: the watching daemon, and the
\* --once scan the admin page starts (admin_app.py lines 265-286).
WatcherProcs == {"watch", "once"}

\* watch_folder.py lines 19-27, 64-68, 38-48: an entry of the folder reaches
\* the watching daemon or a --once scan, which passes regular files to
\* process_file; process_file up to the end of the first application
\* context.  Each watcher process handles one file at a time.
process_file_check(w, f) ==
    /\ f \in folder
    /\ \A call \in watchers : call.watcher # w
    /\ IF ~IsFile(f)
       THEN /\ watchers' = watchers
            /\ pipe_event' = PipeEvent("process_file_check", "", f, "directory")
       ELSE IF StartsWithDot(f)
       THEN /\ watchers' = watchers
            /\ pipe_event' = PipeEvent("process_file_check", "", f, "hidden")
       ELSE /\ watchers' = IF QueryByFileName(users_table, f) # {} THEN watchers ELSE watchers \cup {[watcher |-> w, file |-> f]}
            /\ pipe_event' = PipeEvent("process_file_check", "", f, IF QueryByFileName(users_table, f) # {} THEN "skipped" ELSE "new")
    /\ UNCHANGED <<folder, users_table, procs, tables, launched>>

\* Lines 51-62: the insert; the primary key user_id must be new.
process_file_insert(w, f) ==
    /\ [watcher |-> w, file |-> f] \in watchers
    /\ watchers' = watchers \ {[watcher |-> w, file |-> f]}
    /\ IF Splitext(f) \in DOMAIN users_table
       THEN /\ users_table' = users_table
            /\ pipe_event' = PipeEvent("process_file_insert", "", f, "IntegrityError")
       ELSE /\ users_table' = (Splitext(f) :> [file_name |-> f, status |-> USER_STATUS_PREPROCESSED]) @@ users_table
            /\ pipe_event' = PipeEvent("process_file_insert", "", f, "created")
    /\ UNCHANGED <<folder, procs, tables, launched>>

\* admin_app.py lines 210-264: a POST of run_reconall / run_update_table
\* starts the pipeline process for the posted user id, if the row exists.
admin_launch(stage, user_id) ==
    /\ launched < MaxProcs
    /\ user_id \in DOMAIN users_table
    /\ launched' = launched + 1
    /\ procs' = (launched' :> [stage |-> stage, file_name |-> users_table[user_id].file_name, pc |-> "start", status |-> "", table |-> 0, df_existing |-> NoCsv]) @@ procs
    /\ pipe_event' = PipeEvent("admin_launch", stage, users_table[user_id].file_name, "started")
    /\ UNCHANGED <<folder, users_table, watchers, tables>>

\* freesurfer.py lines 160-166: the process loads its user row.
proc_load(pid) ==
    /\ pid \in DOMAIN procs
    /\ procs[pid].pc = "start"
    /\ LET p == procs[pid]
           found == QueryByFileName(users_table, p.file_name)
       IN IF found = {}
          THEN /\ procs' = [i \in DOMAIN procs \ {pid} |-> procs[i]]
               /\ pipe_event' = PipeEvent("proc_load", p.stage, p.file_name, "ValueError")
          ELSE /\ procs' = [procs EXCEPT ![pid] = [p EXCEPT !.pc = "loaded", !.status = users_table[CHOOSE id \in found : TRUE].status]]
               /\ pipe_event' = PipeEvent("proc_load", p.stage, p.file_name, "loaded")
    /\ UNCHANGED <<folder, users_table, watchers, tables, launched>>

\* The row a commit of the process writes: its user's status.
Commit(table, file_name, status) ==
    [id \in DOMAIN table |-> IF table[id].file_name = file_name THEN [table[id] EXCEPT !.status = status] ELSE table[id]]

\* Lines 167-170 and 184-191 without the check of lines 182-183.
proc_begin_unchecked(pid) ==
    /\ pid \in DOMAIN procs
    /\ procs[pid].pc = "loaded"
    /\ LET p == procs[pid]
           processing == IF p.stage = "recon-all" THEN USER_STATUS_FREESURFER_PROCESSING ELSE USER_STATUS_UPDATE_TABLE_PROCESSING
       IN /\ procs' = [procs EXCEPT ![pid] = [p EXCEPT !.pc = "command", !.status = processing, !.table = IF p.stage = "update-table" THEN 1 ELSE 0]]
          /\ users_table' = Commit(users_table, p.file_name, processing)
          /\ pipe_event' = PipeEvent("proc_begin", p.stage, p.file_name, "processing")
    /\ UNCHANGED <<folder, watchers, tables, launched>>

\* Lines 167-170 and 182-191: the stage is marked as processing and the
\* change committed; update-table first checks the status it loaded.
proc_begin(pid) ==
    /\ pid \in DOMAIN procs
    /\ procs[pid].pc = "loaded"
    /\ LET p == procs[pid]
           processing == IF p.stage = "recon-all" THEN USER_STATUS_FREESURFER_PROCESSING ELSE USER_STATUS_UPDATE_TABLE_PROCESSING
       IN IF p.stage = "update-table" /\ p.status \notin {USER_STATUS_FREESURFER_COMPLETED, USER_STATUS_UPDATE_TABLE_FAILED}
          THEN /\ procs' = [i \in DOMAIN procs \ {pid} |-> procs[i]]
               /\ users_table' = users_table
               /\ pipe_event' = PipeEvent("proc_begin", p.stage, p.file_name, "RuntimeError")
          ELSE /\ procs' = [procs EXCEPT ![pid] = [p EXCEPT !.pc = "command", !.status = processing, !.table = IF p.stage = "update-table" THEN 1 ELSE 0]]
               /\ users_table' = Commit(users_table, p.file_name, processing)
               /\ pipe_event' = PipeEvent("proc_begin", p.stage, p.file_name, "processing")
    /\ UNCHANGED <<folder, watchers, tables, launched>>

\* df[id_col]: the values of the first column.
Ids(table) == {table[i].id_col : i \in DOMAIN table}

\* Lines 72-108 without the filter of line 97.
update_table_append_only(existing_file, new_subject_file) ==
    IF existing_file.exists /\ existing_file.size > 0
    THEN Csv(existing_file.table \o new_subject_file.table)
    ELSE Csv(new_subject_file.table)

\* Lines 72-108: the rows of the existing table whose identifier is not in
\* the new table, followed by the rows of the new table; the new table
\* alone when the existing file is missing or empty.
update_table(existing_file, new_subject_file) ==
    IF existing_file.exists /\ existing_file.size > 0
    THEN LET df_new == new_subject_file.table
             df_existing == SelectSeq(existing_file.table, LAMBDA row : row.id_col \notin Ids(df_new))
         IN Csv(df_existing \o df_new)
    ELSE Csv(new_subject_file.table)

\* Lines 123, 131-142: what a table command writes to its temporary file on
\* success, one row for the subject.
tablefile(subject_names) == Csv(<<Row(subject_names, 1)>>)

\* The subjects a table can have a row for and the values of a measure.
TableSubjects == {[stem |-> stem, suffixes |-> <<>>] : stem \in {"s1", "s2", "s3"}}
MaxMeasure == 2
MaxRows == 2
Rows == {Row(subject, measure) : subject \in TableSubjects, measure \in 1..MaxMeasure}
Tables == UNION {[1..n -> Rows] : n \in 0..MaxRows}
UniqueIds(table) == \A i, j \in DOMAIN table : table[i].id_col = table[j].id_col => i = j

\* The existing file is missing, empty, or a table update_table wrote
\* earlier, one row per subject; the new-subjects file is any table the
\* command can write, also one that names a subject twice.
InitUpdateIdle ==
    /\ ut_existing = None
    /\ ut_new = None
    /\ ut_result = None
    /\ ut_again = None

InitUpdate ==
    /\ ut_existing \in {NoCsv, EmptyCsv} \cup {Csv(table) : table \in {t \in Tables : UniqueIds(t)}}
    /\ ut_new \in {Csv(table) : table \in Tables \ {<<>>}}
    /\ ut_result = Pending
    /\ ut_again = Pending

call_update_table ==
    /\ ut_result = Pending
    /\ ut_result' = update_table(ut_existing, ut_new)
    /\ UNCHANGED <<ut_existing, ut_new, ut_again>>

\* The same update applied to the file the first call left.
call_update_table_again ==
    /\ ut_result # Pending
    /\ ut_again = Pending
    /\ ut_again' = update_table(ut_result, ut_new)
    /\ UNCHANGED <<ut_existing, ut_new, ut_result>>

\* Lines 171-180: recon-all returns; either outcome is committed.
proc_recon_all_ends(pid, success) ==
    /\ pid \in DOMAIN procs
    /\ procs[pid].pc = "command"
    /\ procs[pid].stage = "recon-all"
    /\ LET p == procs[pid]
           status == IF success THEN USER_STATUS_FREESURFER_COMPLETED ELSE USER_STATUS_FREESURFER_FAILED
       IN /\ users_table' = Commit(users_table, p.file_name, status)
          /\ pipe_event' = PipeEvent("proc_ends", p.stage, p.file_name, IF success THEN "completed" ELSE "command_failed")
    /\ procs' = [i \in DOMAIN procs \ {pid} |-> procs[i]]
    /\ UNCHANGED <<folder, watchers, tables, launched>>

\* Lines 131-145 and 82-91: a table command returns.  On a non-zero exit
\* the RuntimeError leaves the process at line 197: the status assigned at
\* line 195 is dropped with the session, the commit of line 198 is not
\* reached.  On success update_table looks at the existing file and reads
\* it.
proc_table_command_ends(pid, success) ==
    /\ pid \in DOMAIN procs
    /\ procs[pid].pc = "command"
    /\ procs[pid].stage = "update-table"
    /\ LET p == procs[pid]
       IN IF success
          THEN /\ procs' = [procs EXCEPT ![pid] = [p EXCEPT !.pc = "to_csv", !.df_existing = tables[p.table]]]
               /\ pipe_event' = PipeEvent("proc_reads", p.stage, p.file_name, "read")
          ELSE /\ procs' = [i \in DOMAIN procs \ {pid} |-> procs[i]]
               /\ pipe_event' = PipeEvent("proc_ends", p.stage, p.file_name, "command_failed")
    /\ UNCHANGED <<folder, users_table, watchers, tables, launched>>

\* Lines 94-108 and 192-198: update_table writes the combined table over
\* the existing file; after the third table the completion is committed.
proc_update_table_writes(pid) ==
    /\ pid \in DOMAIN procs
    /\ procs[pid].pc = "to_csv"
    /\ LET p == procs[pid]
       IN /\ tables' = [tables EXCEPT ![p.table] = update_table(p.df_existing, tablefile(SubjectName(p.file_name)))]
          /\ IF p.table < Len(TableNames)
             THEN /\ procs' = [procs EXCEPT ![pid] = [p EXCEPT !.pc = "command", !.table = p.table + 1, !.df_existing = NoCsv]]
                  /\ users_table' = users_table
                  /\ pipe_event' = PipeEvent("proc_writes", p.stage, p.file_name, "written")
             ELSE /\ procs' = [i \in DOMAIN procs \ {pid} |-> procs[i]]
                  /\ users_table' = Commit(users_table, p.file_name, USER_STATUS_UPDATE_TABLE_COMPLETED)
                  /\ pipe_event' = PipeEvent("proc_ends", p.stage, p.file_name, "completed")
    /\ UNCHANGED <<folder, watchers, launched>>

(***************************************************************************)
(* The dashboard session                                                   *)
(***************************************************************************)

InitStatsIdle ==
    /\ st_args = None
    /\ st_valid = "unset"
    /\ st_result = None
    /\ st_again = None

Init == InitDash /\ InitStatsIdle /\ InitLoadIdle /\ InitViewIdle /\ InitPipe /\ InitUpdateIdle /\ InitFilterIdle

\* A session in which the user edits the form freely.
Next ==
    \/ (\E text \in TypedNames : on_name_change(text)) /\ UNCHANGED <<statsVars, loadVars, viewInVars, pipeVars, tableVars, filterVars>>
    \/ (\E cohort \in Cohorts \cup {{}} : select_users(cohort)) /\ UNCHANGED <<statsVars, loadVars, viewInVars, pipeVars, tableVars, filterVars>>
    \/ (\E new \in Features : on_feature_change(new)) /\ UNCHANGED <<statsVars, loadVars, viewInVars, pipeVars, tableVars, filterVars>>
    \/ (\E new \in TestOptions : on_statistical_change(new)) /\ UNCHANGED <<statsVars, loadVars, viewInVars, pipeVars, tableVars, filterVars>>
    \/ toggle_apply_fdr /\ UNCHANGED <<statsVars, loadVars, viewInVars, pipeVars, tableVars, filterVars>>
    \/ tick /\ UNCHANGED <<statsVars, loadVars, viewInVars, pipeVars, tableVars, filterVars>>
    \/ run_analysis(MaxClicks) /\ UNCHANGED <<statsVars, loadVars, viewInVars, pipeVars, tableVars, filterVars>>
    \/ (\E id \in DOMAIN tasks : worker_returns(id)) /\ UNCHANGED <<statsVars, loadVars, viewInVars, pipeVars, tableVars, filterVars>>
    \/ (\E id \in DOMAIN tasks : resume_run_analysis(id)) /\ UNCHANGED <<statsVars, loadVars, viewInVars, pipeVars, tableVars, filterVars>>
    \/ clear_running_indicator_after_delay /\ UNCHANGED <<statsVars, loadVars, viewInVars, pipeVars, tableVars, filterVars>>
    \/ (\E new \in {history_options[i].value : i \in DOMAIN history_options} : load_previous_analysis(new)) /\ UNCHANGED <<statsVars, loadVars, viewInVars, pipeVars, tableVars, filterVars>>

vars == <<statsVars, loadVars, viewInVars, dashVars, pipeVars, tableVars, filterVars>>

Spec == Init /\ [][Next]_vars

\* A session of several runs, possibly in flight together, in which the user
\* fills the form top to bottom (name, cohort, feature, test) before the
\* click.
\* The names typed in such a session: one letter.
RunNames == {text \in TypedNames : Len(text) = 1 /\ Sanitize(text) = text}

NextRuns ==
    \/ (name_selector = <<>> /\ \E text \in RunNames : on_name_change(text)) /\ UNCHANGED <<statsVars, loadVars, viewInVars, pipeVars, tableVars, filterVars>>
    \/ (name_selector # <<>> /\ \E cohort \in Cohorts : select_users(cohort)) /\ UNCHANGED <<statsVars, loadVars, viewInVars, pipeVars, tableVars, filterVars>>
    \/ (user_selector # {} /\ \E new \in Features : on_feature_change(new)) /\ UNCHANGED <<statsVars, loadVars, viewInVars, pipeVars, tableVars, filterVars>>
    \/ (feature_selector # "" /\ statistical_selector = "" /\ \E new \in TestOptions : on_statistical_change(new)) /\ UNCHANGED <<statsVars, loadVars, viewInVars, pipeVars, tableVars, filterVars>>
    \/ (name_selector = <<>> /\ toggle_apply_fdr) /\ UNCHANGED <<statsVars, loadVars, viewInVars, pipeVars, tableVars, filterVars>>
    \/ tick /\ UNCHANGED <<statsVars, loadVars, viewInVars, pipeVars, tableVars, filterVars>>
    \/ (statistical_selector # "" /\ run_analysis(MaxRuns)) /\ UNCHANGED <<statsVars, loadVars, viewInVars, pipeVars, tableVars, filterVars>>
    \/ (\E id \in DOMAIN tasks : worker_returns(id)) /\ UNCHANGED <<statsVars, loadVars, viewInVars, pipeVars, tableVars, filterVars>>
    \/ (\E id \in DOMAIN tasks : resume_run_analysis(id)) /\ UNCHANGED <<statsVars, loadVars, viewInVars, pipeVars, tableVars, filterVars>>
    \/ clear_running_indicator_after_delay /\ UNCHANGED <<statsVars, loadVars, viewInVars, pipeVars, tableVars, filterVars>>
    \/ (\E new \in {history_options[i].value : i \in DOMAIN history_options} : load_previous_analysis(new)) /\ UNCHANGED <<statsVars, loadVars, viewInVars, pipeVars, tableVars, filterVars>>

SpecRuns == Init /\ [][NextRuns]_vars

\* The worker process returns and the event loop resumes the coroutine that
\* awaits it (lines 367-379).
FairSpecRuns ==
    /\ SpecRuns
    /\ WF_vars(\E id \in DOMAIN tasks : worker_returns(id) /\ UNCHANGED <<statsVars, loadVars, viewInVars, pipeVars, tableVars, filterVars>>)
    /\ WF_vars(\E id \in DOMAIN tasks : resume_run_analysis(id) /\ UNCHANGED <<statsVars, loadVars, viewInVars, pipeVars, tableVars, filterVars>>)

\* is_valid_test and perform_statistical_analysis on every input of
\* StatsInputs.
NextStats ==
    \/ call_is_valid_test /\ UNCHANGED <<dashVars, loadVars, viewInVars, pipeVars, tableVars, filterVars>>
    \/ (\E lib \in [1..Len(st_args.brain_volumes_df.columns) -> LibStats] : call_perform_statistical_analysis(lib)) /\ UNCHANGED <<dashVars, loadVars, viewInVars, pipeVars, tableVars, filterVars>>
    \/ (\E lib \in [1..Len(st_args.brain_volumes_df.columns) -> LibStats] : call_perform_statistical_analysis_again(lib)) /\ UNCHANGED <<dashVars, loadVars, viewInVars, pipeVars, tableVars, filterVars>>

InitStatsSpec == InitDash /\ InitStats /\ InitLoadIdle /\ InitViewIdle /\ InitPipe /\ InitUpdateIdle /\ InitFilterIdle

SpecStats == InitStatsSpec /\ [][NextStats]_vars

\* load_brain_volumes_data on every combination of FileStates.
NextLoad ==
    \/ call_load_brain_volumes_data /\ UNCHANGED <<statsVars, dashVars, viewInVars, pipeVars, tableVars, filterVars>>

InitLoadSpec == InitDash /\ InitStatsIdle /\ InitLoad /\ InitViewIdle /\ InitPipe /\ InitUpdateIdle /\ InitFilterIdle

SpecLoad == InitLoadSpec /\ [][NextLoad]_vars

\* The mesh textures and the glass-brain points on every region_values
\* dict of RegionValues and every atlas of Atlases.
NextView ==
    \/ call_map_values_to_vertices /\ UNCHANGED <<statsVars, loadVars, dashVars, pipeVars, tableVars, filterVars>>
    \/ call_glass_brain_view /\ UNCHANGED <<statsVars, loadVars, dashVars, pipeVars, tableVars, filterVars>>

InitViewSpec == InitDash /\ InitStatsIdle /\ InitLoadIdle /\ InitView /\ InitPipe /\ InitUpdateIdle /\ InitFilterIdle

SpecView == InitViewSpec /\ [][NextView]_vars

\* The positions of the age slider and the selections of the group list.
SliderValues(users_df) == {<<lo, hi>> \in Ages(users_df) \X Ages(users_df) : lo <= hi}

\* A session start on every users table of InitFilter, filter changes and
\* history loads.
NextFilter ==
    \/ construct_session /\ UNCHANGED <<statsVars, loadVars, viewInVars, dashVars, pipeVars, tableVars>>
    \/ (uf_widgets # Pending /\ \E value \in SliderValues(uf_users_df) : update_filtered_users("age", value)) /\ UNCHANGED <<statsVars, loadVars, viewInVars, dashVars, pipeVars, tableVars>>
    \/ (uf_widgets # Pending /\ \E value \in SUBSET create_user_filters(uf_users_df).group : update_filtered_users("group", value)) /\ UNCHANGED <<statsVars, loadVars, viewInVars, dashVars, pipeVars, tableVars>>
    \/ load_previous_analysis_user_options /\ UNCHANGED <<statsVars, loadVars, viewInVars, dashVars, pipeVars, tableVars>>

InitFilterSpec == InitDash /\ InitStatsIdle /\ InitLoadIdle /\ InitViewIdle /\ InitPipe /\ InitUpdateIdle /\ InitFilter

SpecFilter == InitFilterSpec /\ [][NextFilter]_vars

\* update_table on every pair of files of InitUpdate.
NextUpdate ==
    \/ call_update_table /\ UNCHANGED <<statsVars, loadVars, viewInVars, dashVars, pipeVars, filterVars>>
    \/ call_update_table_again /\ UNCHANGED <<statsVars, loadVars, viewInVars, dashVars, pipeVars, filterVars>>

InitUpdateSpec == InitDash /\ InitStatsIdle /\ InitLoadIdle /\ InitViewIdle /\ InitPipe /\ InitUpdate /\ InitFilterIdle

SpecUpdate == InitUpdateSpec /\ [][NextUpdate]_vars

\* The watching daemon and a --once scan on every entry of FolderEntries.
NextWatch ==
    \/ (\E f \in FolderEntries : file_arrives(f)) /\ UNCHANGED <<statsVars, loadVars, viewInVars, dashVars, tableVars, filterVars>>
    \/ (\E w \in WatcherProcs, f \in FolderEntries : process_file_check(w, f)) /\ UNCHANGED <<statsVars, loadVars, viewInVars, dashVars, tableVars, filterVars>>
    \/ (\E w \in WatcherProcs, f \in DataFiles : process_file_insert(w, f)) /\ UNCHANGED <<statsVars, loadVars, viewInVars, dashVars, tableVars, filterVars>>

SpecWatch == Init /\ [][NextWatch]_vars

\* The files of two subjects, one of them with two suffixes.
PipeFiles ==
    { [stem |-> "s1", suffixes |-> <<".nii", ".gz">>],
      [stem |-> "s2", suffixes |-> <<".nii">>] }

\* The watching daemon, the admin page and the pipeline processes on the
\* files of PipeFiles.
NextPipe ==
    \/ (\E f \in PipeFiles : file_arrives(f)) /\ UNCHANGED <<statsVars, loadVars, viewInVars, dashVars, tableVars, filterVars>>
    \/ (\E f \in PipeFiles : process_file_check("watch", f)) /\ UNCHANGED <<statsVars, loadVars, viewInVars, dashVars, tableVars, filterVars>>
    \/ (\E f \in PipeFiles : process_file_insert("watch", f)) /\ UNCHANGED <<statsVars, loadVars, viewInVars, dashVars, tableVars, filterVars>>
    \/ (\E stage \in {"recon-all", "update-table"}, user_id \in DOMAIN users_table : admin_launch(stage, user_id)) /\ UNCHANGED <<statsVars, loadVars, viewInVars, dashVars, tableVars, filterVars>>
    \/ (\E pid \in DOMAIN procs : proc_load(pid)) /\ UNCHANGED <<statsVars, loadVars, viewInVars, dashVars, tableVars, filterVars>>
    \/ (\E pid \in DOMAIN procs : proc_begin(pid)) /\ UNCHANGED <<statsVars, loadVars, viewInVars, dashVars, tableVars, filterVars>>
    \/ (\E pid \in DOMAIN procs, success \in BOOLEAN : proc_recon_all_ends(pid, success)) /\ UNCHANGED <<statsVars, loadVars, viewInVars, dashVars, tableVars, filterVars>>
    \/ (\E pid \in DOMAIN procs, success \in BOOLEAN : proc_table_command_ends(pid, success)) /\ UNCHANGED <<statsVars, loadVars, viewInVars, dashVars, tableVars, filterVars>>
    \/ (\E pid \in DOMAIN procs : proc_update_table_writes(pid)) /\ UNCHANGED <<statsVars, loadVars, viewInVars, dashVars, tableVars, filterVars>>

SpecPipe == Init /\ [][NextPipe]_vars

\* The state SpecPipe is in once the watcher has registered the files of
\* PipeFiles and recon-all has succeeded for both, counting the processes
\* launched from here on.
InitTablesPipe ==
    /\ folder = PipeFiles
    /\ users_table = [user_id \in {Splitext(f) : f \in PipeFiles} |->
                         [file_name |-> CHOOSE f \in PipeFiles : Splitext(f) = user_id, status |-> USER_STATUS_FREESURFER_COMPLETED]]
    /\ watchers = {}
    /\ procs = <<>>
    /\ tables = [i \in 1..Len(TableNames) |-> NoCsv]
    /\ launched = 0
    /\ pipe_event = PipeIdle

\* update-table processes started from the admin page, running together.
NextTables ==
    \/ (\E user_id \in DOMAIN users_table : admin_launch("update-table", user_id)) /\ UNCHANGED <<statsVars, loadVars, viewInVars, dashVars, tableVars, filterVars>>
    \/ (\E pid \in DOMAIN procs : proc_load(pid)) /\ UNCHANGED <<statsVars, loadVars, viewInVars, dashVars, tableVars, filterVars>>
    \/ (\E pid \in DOMAIN procs : proc_begin(pid)) /\ UNCHANGED <<statsVars, loadVars, viewInVars, dashVars, tableVars, filterVars>>
    \/ (\E pid \in DOMAIN procs, success \in BOOLEAN : proc_table_command_ends(pid, success)) /\ UNCHANGED <<statsVars, loadVars, viewInVars, dashVars, tableVars, filterVars>>
    \/ (\E pid \in DOMAIN procs : proc_update_table_writes(pid)) /\ UNCHANGED <<statsVars, loadVars, viewInVars, dashVars, tableVars, filterVars>>

InitTables == InitDash /\ InitStatsIdle /\ InitLoadIdle /\ InitViewIdle /\ InitTablesPipe /\ InitUpdateIdle /\ InitFilterIdle

SpecTables == InitTables /\ [][NextTables]_vars

(***************************************************************************)
(* Properties of run_analysis.py (SpecStats)                               *)
(***************************************************************************)
\* The feature column of the call is numeric / the distinct values of the
\* cohort in it.
ArgNumeric == st_args.selected_feature = "age"
ArgDistinct == {ColumnValue(st_args.selected_feature, u) : u \in st_args.selected_users}
ArgTestKind ==
    CASE st_args.statistical_test \in {"pearson", "PEARSON"} -> "pearson"
      [] st_args.statistical_test = "spearman" -> "spearman"
      [] st_args.statistical_test \in {"t-test", "T-Test"} -> "t-test"
      [] st_args.statistical_test \in {"anova", "ANOVA"} -> "anova"
      [] OTHER -> "none"

\* C9: is_valid_test accepts pearson and spearman exactly when the feature
\* is numeric, t-test exactly when the feature has exactly 2 distinct values,
\* anova exactly when the feature is non-numeric with at least 3 distinct
\* values, and rejects every name that is none of the four test kinds (names
\* are compared after lower-casing); anova on a binary categorical feature
\* is rejected.
C9_IsValidTestTable ==
    st_valid \in {"accept", "reject"} =>
        (st_valid = "accept" <=>
            CASE ArgTestKind \in {"pearson", "spearman"} -> ArgNumeric
              [] ArgTestKind = "t-test" -> Cardinality(ArgDistinct) = 2
              [] ArgTestKind = "anova" -> ~ArgNumeric /\ Cardinality(ArgDistinct) >= 3
              [] OTHER -> FALSE)

\* C9 witness: anova was rejected for a categorical feature with two
\* distinct values in the cohort.
C9_Witness ==
    /\ st_valid = "reject"
    /\ st_args.statistical_test = ANOVA_TEST
    /\ st_args.selected_feature = "group"
    /\ Cardinality(ArgDistinct) = 2

\* The effect-size key of a test kind.
EffectKey(test) == IF test \in {PEARSON_TEST, SPEARMAN_TEST} THEN "r" ELSE IF test = T_TEST THEN "t" ELSE "f"

\* C10: for every cohort, feature and test kind that is_valid_test accepts,
\* perform_statistical_analysis returns for every region a result holding p
\* and the effect-size key of the test kind (cohorts whose subjects all have
\* a row in the region table).
C10_AcceptedRunHasEveryRegion ==
    (/\ st_valid = "accept"
     /\ st_args.statistical_test \in Range(STATISTICAL_TESTS)
     /\ st_args.selected_users \subseteq st_args.brain_volumes_df.index
     /\ st_result # Pending)
    => /\ st_result # None
       /\ \A region \in Range(st_args.brain_volumes_df.columns) :
             /\ region \in DOMAIN st_result
             /\ {"p", EffectKey(st_args.statistical_test)} \subseteq DOMAIN st_result[region]

\* C10, the divergence: an accepted t-test on a numeric feature with two
\* distinct values came back as a mapping without any region.
C10_Witness ==
    /\ st_valid = "accept"
    /\ st_args.statistical_test = T_TEST
    /\ st_args.selected_feature = "age"
    /\ st_args.brain_volumes_df.columns # <<>>
    /\ st_result # Pending
    /\ st_result # None
    /\ DOMAIN st_result = {}

\* A computation of a region raises: a subject of the cohort has no row in
\* the region table, or pearson is given fewer than two observations.
ArgRegionError ==
    /\ st_args.selected_users # {}
    /\ st_args.selected_feature \in Range(filter_columns)
    /\ st_args.brain_volumes_df.columns # <<>>
    /\ \/ ~(st_args.selected_users \subseteq st_args.brain_volumes_df.index)
       \/ ArgNumeric /\ st_args.statistical_test = PEARSON_TEST /\ Cardinality(st_args.selected_users) < 2

Stored(store, filename, key) ==
    LET bytes == store[filename]
    IN bytes[CHOOSE i \in DOMAIN bytes : bytes[i][1] = key][2]

\* The form does not describe a run: empty cohort, empty sanitized name, no
\* feature, no test kind, or a test kind not valid for the feature.
FormInvalid ==
    \/ user_selector = {}
    \/ selected_name = <<>>
    \/ feature_selector = ""
    \/ statistical_selector = ""
    \/ /\ feature_selector = "age"
       /\ statistical_selector = T_TEST
       /\ Cardinality({ColumnValue("age", u) : u \in user_selector}) # 2
    \/ feature_selector = "age" /\ statistical_selector = ANOVA_TEST

\* C1: run_analysis on an invalid form is rejected with a notification and
\* changes nothing: no record file, no dispatched computation, and the
\* history list, analysis_status, current_analysis_name and the input
\* fields keep their values.
C1_InvalidFormRejected ==
    [][(last'.op = "run_analysis" /\ FormInvalid) =>
          /\ last'.outcome = "rejected"
          /\ last'.notification # ""
          /\ UNCHANGED <<files, txt_files, db_rows, tasks, analyses_history, history_options>>
          /\ UNCHANGED <<analysis_status, current_analysis_name>>
          /\ UNCHANGED <<name_selector, selected_name, user_selector, feature_selector, statistical_selector>>]_vars

\* C1, the divergence: the click with a cohort and no feature ended in the
\* KeyError of the column lookup, without a notification.
C1_Witness ==
    /\ last.op = "run_analysis"
    /\ last.outcome = "raised"
    /\ last.notification = ""
    /\ user_selector # {}
    /\ feature_selector = ""

C3_BeginCompleteOneEntry ==
    /\ \A i, j \in DOMAIN analyses_history[2] : analyses_history[2][i] = analyses_history[2][j] => i = j
    /\ Len(analyses_history[1]) = Len(analyses_history[2])
    /\ (last.op = "resume_run_analysis" /\ last.outcome = COMPLETED) =>
          /\ Stored(files, last.file, "status_run") = COMPLETED
          /\ Stored(files, last.file, "results") = last.result
          /\ Cardinality({i \in DOMAIN analyses_history[2] : analyses_history[2][i] = last.file}) = 1

\* C3 witness: a filename was run twice and the second run completed.
C3_Witness ==
    /\ last.op = "resume_run_analysis"
    /\ last.outcome = COMPLETED
    /\ Len(db_rows) = 2
    /\ db_rows[1].results = db_rows[2].results
    /\ Stored(files, last.file, "results") = last.result

\* C4: right after load_previous_analysis the live cohort, feature, test
\* kind, correction flag, results and status are the values pickled in the
\* record's file.
C4_LoadRestoresRecord ==
    (last.op = "load_previous_analysis" /\ last.file # EmptyStr) =>
        /\ selected_users = Stored(files, last.file, "selected_users")
        /\ selected_feature = Stored(files, last.file, "selected_feature")
        /\ selected_statistical = Stored(files, last.file, "selected_statistical")
        /\ apply_fdr = Stored(files, last.file, "apply_fdr")
        /\ analysis_results = Stored(files, last.file, "results")
        /\ analysis_status = Stored(files, last.file, "status_run")

\* C4 witness: a completed record with results was loaded while the live
\* correction flag differed from the record's.
C4_Witness ==
    /\ last.op = "load_previous_analysis"
    /\ last.file # EmptyStr
    /\ analysis_status = COMPLETED
    /\ Truthy(analysis_results)
    /\ selected_users # {}
    /\ ~apply_fdr

\* C5: a record whose status is completed holds a result for every region
\* of the region table.
C5_CompletedCoversRegions ==
    \A f \in DOMAIN files :
        Stored(files, f, "status_run") = COMPLETED =>
            DOMAIN Stored(files, f, "results") = Range(brain_volumes_df.columns)

\* C5 witness: a completed record exists, and a run whose worker returned a
\* mapping without regions was recorded as failed.
C5_Witness ==
    /\ \E f \in DOMAIN files : Stored(files, f, "status_run") = COMPLETED
    /\ last.op = "resume_run_analysis"
    /\ last.result # None
    /\ DOMAIN last.result = {}

\* C7: when a dispatched analysis finishes, analysis_status becomes
\* completed or failed, the history entry shows the new status, and the
\* brain view and the data plot are drawn from the record's results.
C7_LiveStateFollowsRecord ==
    [][last'.op = "resume_run_analysis" =>
          /\ analysis_status' = Stored(files', last'.file, "status_run")
          /\ analysis_status' \in {COMPLETED, FAILED}
          /\ \E i \in DOMAIN analyses_history'[2] :
                /\ analyses_history'[2][i] = last'.file
                /\ analyses_history'[1][i].glyph = StatusIndicator(last'.outcome)
          /\ analysis_results' = Stored(files', last'.file, "results")
          /\ brain_display' = create_brain_view(analysis_results', analysis_status', display_metric', apply_fdr')
          /\ data_plot' = create_data_plot(selected_brain_region', selected_users', selected_feature', analysis_status', analysis_results', brain_volumes_df')]_vars

\* C7, the divergence: the run completed and its record holds results, the
\* live status still says running and the brain view is the placeholder.
C7_Witness ==
    /\ last.op = "resume_run_analysis"
    /\ last.outcome = COMPLETED
    /\ analysis_status = RUNNING
    /\ analysis_results = None
    /\ brain_display = [message |-> RUNNING_GRAPH_MESSEGE]

\* Under FairSpecRuns: a run that was started gets its completion written
\* (its coroutine ends in resume_run_analysis).
RunsGetCompletion == \A id \in 1..MaxRuns : (id \in DOMAIN tasks) ~> (id \notin DOMAIN tasks)

(***************************************************************************)
(* Properties of the pipeline (SpecPipe)                                   *)
(***************************************************************************)
\* C8: when the command of a stage fails, the committed status of the
\* subject is the *_failed value of the stage and the subject is offered
\* again for that stage.
C8_FailedStageIsRetryable ==
    [][(pipe_event'.op = "proc_ends" /\ pipe_event'.outcome = "command_failed") =>
          \A id \in DOMAIN users_table' :
              users_table'[id].file_name = pipe_event'.file_name =>
                  IF pipe_event'.stage = "recon-all"
                  THEN users_table'[id].status = USER_STATUS_FREESURFER_FAILED /\ id \in users_for_freesurfer'
                  ELSE users_table'[id].status = USER_STATUS_UPDATE_TABLE_FAILED /\ id \in users_for_update_table']_vars

\* C8, the divergence: a table command failed and the committed status is
\* still update_table_processing; the subject is offered for no stage.
C8_Witness ==
    /\ pipe_event.op = "proc_ends"
    /\ pipe_event.stage = "update-table"
    /\ pipe_event.outcome = "command_failed"
    /\ \E id \in DOMAIN users_table :
          /\ users_table[id].file_name = pipe_event.file_name
          /\ users_table[id].status = USER_STATUS_UPDATE_TABLE_PROCESSING
          /\ id \notin users_for_freesurfer \cup users_for_update_table


(***************************************************************************)
(* Further properties of run_analysis.py (SpecStats)                       *)
(***************************************************************************)
\* The cohort's values of the feature have no group structure that fits the
\* test kind of the call.
ArgNoGroupStructure ==
    CASE st_args.statistical_test \in {PEARSON_TEST, SPEARMAN_TEST} -> ~ArgNumeric
      [] st_args.statistical_test = T_TEST -> ArgNumeric \/ Cardinality(ArgDistinct) # 2
      [] st_args.statistical_test = ANOVA_TEST -> ArgNumeric \/ Cardinality(ArgDistinct) <= 2
      [] OTHER -> FALSE

\* The call is about a non-empty cohort with rows in both tables, a feature
\* of the feature table and a region table with columns.
ArgWellFormed ==
    /\ st_args.selected_users # {}
    /\ st_args.selected_feature \in Range(filter_columns)
    /\ st_args.selected_users \subseteq st_args.brain_volumes_df.index
    /\ st_args.brain_volumes_df.columns # <<>>

\* C11: when the cohort's feature values have no group structure fitting the
\* test kind (t-test without exactly two groups, anova without more than two
\* groups, a group test on a numeric feature, a correlation test on a
\* categorical feature), every region gets the neutral result: p = 1.0 and
\* no effect-size key.
C11_NeutralResultEverywhere ==
    (ArgWellFormed /\ ArgNoGroupStructure /\ st_result # Pending)
    => /\ st_result # None
       /\ \A region \in Range(st_args.brain_volumes_df.columns) :
             /\ region \in DOMAIN st_result
             /\ st_result[region].p = 100
             /\ DOMAIN st_result[region] \cap {"r", "t", "f"} = {}

\* C11, the divergence: anova on a numeric feature came back without a
\* result for any region.
C11_Witness ==
    /\ ArgWellFormed
    /\ st_args.statistical_test = ANOVA_TEST
    /\ ArgNumeric
    /\ ~st_args.apply_fdr
    /\ st_result # Pending
    /\ st_result # None
    /\ DOMAIN st_result = {}

\* The regions of the returned mapping in result order.
ResultKeys == SelectSeq(st_args.brain_volumes_df.columns, LAMBDA region : region \in DOMAIN st_result)

\* C12: every region's result carries p_adjusted and significant exactly
\* when apply_fdr is set and neither of them when it is not; the values are
\* those of one Benjamini-Hochberg adjustment over the p-values of all
\* regions of the run, the i-th adjusted value going to the i-th region in
\* result order (an adjusted value is never below its p, and significant
\* says that it is at most 0.05).
C12_FdrKeysIffFlag ==
    (st_result # Pending /\ st_result # None) =>
        LET mt == multipletests([i \in 1..Len(ResultKeys) |-> st_result[ResultKeys[i]].p])
        IN \A i \in 1..Len(ResultKeys) :
              LET res == st_result[ResultKeys[i]]
              IN IF st_args.apply_fdr
                 THEN /\ {"p_adjusted", "significant"} \subseteq DOMAIN res
                      /\ res.p_adjusted = mt.p_adjusted[i]
                      /\ res.significant = mt.rejected[i]
                      /\ res.p_adjusted[1] * 100 >= res.p * res.p_adjusted[2]
                      /\ res.significant <=> (res.p_adjusted[1] * 100 <= 5 * res.p_adjusted[2])
                 ELSE DOMAIN res \cap {"p_adjusted", "significant"} = {}

\* C12 witness: a run with apply_fdr returned two regions with different
\* p-values, each with its own adjusted value, and a second run found every
\* region significant.
C12_Witness ==
    /\ st_args.apply_fdr
    /\ st_result # Pending
    /\ st_result # None
    /\ Len(ResultKeys) = 2
    /\ st_result[ResultKeys[1]].p < st_result[ResultKeys[2]].p
    /\ st_result[ResultKeys[1]].p_adjusted # st_result[ResultKeys[2]].p_adjusted
    /\ st_again # Pending /\ st_again # None
    /\ \A region \in DOMAIN st_again : st_again[region].significant

\* C13: two calls of perform_statistical_analysis with the same cohort,
\* feature, test kind, correction flag, feature table and region table
\* return identical result mappings.
C13_SameInputsSameResults ==
    (st_result # Pending /\ st_again # Pending) => st_again = st_result

\* C13, the divergence: two calls with the same arguments returned mappings
\* over the same regions that differ in the p of a region.
C13_Witness ==
    /\ st_result # Pending /\ st_result # None
    /\ st_again # Pending /\ st_again # None
    /\ DOMAIN st_result = DOMAIN st_again
    /\ \E region \in DOMAIN st_result : st_result[region].p # st_again[region].p


(***************************************************************************)
(* Further properties of the dashboard session (SpecRuns)                  *)
(***************************************************************************)
\* The second of the click that created the record file of filename.
Created(filename) == filename.stem[4]

\* C14: at every point of a session the history list is ordered
\* newest-first by record creation, and each entry pairs a status-glyph
\* label with the filename of the record the label names.
C14_HistoryNewestFirst ==
    /\ Len(analyses_history[1]) = Len(analyses_history[2])
    /\ \A i, j \in DOMAIN analyses_history[2] :
          i < j => Created(analyses_history[2][i]) >= Created(analyses_history[2][j])
    /\ \A i \in DOMAIN analyses_history[2] :
          /\ analyses_history[1][i].glyph \in {"check", "play", "cross", "circle"}
          /\ analyses_history[1][i].name = Stored(files, analyses_history[2][i], "name")

\* C14, the divergence: the list holds the record of an earlier second
\* before the record of a later second.
C14_Witness ==
    /\ Len(analyses_history[2]) = 2
    /\ Created(analyses_history[2][1]) < Created(analyses_history[2][2])
    /\ history_options[2].value = analyses_history[2][1]
    /\ history_options[3].value = analyses_history[2][2]

\* C15: once the persisted status of a record is completed or failed, no
\* later step of the session changes the status or the results of that
\* record.
C15_FinishedRecordIsFinal ==
    [][\A f \in DOMAIN files :
          Stored(files, f, "status_run") \in {COMPLETED, FAILED} =>
              /\ Stored(files', f, "status_run") = Stored(files, f, "status_run")
              /\ Stored(files', f, "results") = Stored(files, f, "results")]_vars

\* C15, the divergence: two runs were started on one filename; the record
\* is completed by the first while the second is still in flight, with a
\* correction flag other than the one the stored results were computed with.
C15_Witness ==
    \E id \in DOMAIN tasks :
        LET f == tasks[id].filename
        IN /\ Stored(files, f, "status_run") = COMPLETED
           /\ last.op = "resume_run_analysis"
           /\ last.file = f
           /\ tasks[id].pc = "returned"
           /\ tasks[id].results # None
           /\ tasks[id].results # Stored(files, f, "results")

\* C19: in the step of run_analysis that hands the computation to the
\* worker, the record of the run is persisted with status running and the
\* name, cohort, feature and test fields are cleared; a record is written
\* with a status other than running only by the run_analysis of its
\* filename resuming after its worker has returned.
C19_BeginBeforeDispatchCompleteAfterReturn ==
    [][/\ \A id \in DOMAIN tasks' \ DOMAIN tasks :
             /\ tasks'[id].pc = "awaiting"
             /\ tasks'[id].filename \in DOMAIN files'
             /\ Stored(files', tasks'[id].filename, "status_run") = RUNNING
             /\ name_selector' = <<>> /\ selected_name' = <<>>
             /\ user_selector' = {}
             /\ feature_selector' = "" /\ selected_feature' = ""
             /\ statistical_selector' = "" /\ selected_statistical' = ""
       /\ \A f \in DOMAIN files' :
             (/\ f \in DOMAIN files => files'[f] # files[f]
              /\ Stored(files', f, "status_run") # RUNNING)
             => \E id \in DOMAIN tasks \ DOMAIN tasks' :
                   /\ tasks[id].filename = f
                   /\ tasks[id].pc = "returned"
                   /\ last'.op = "resume_run_analysis"
                   /\ last'.file = f]_vars

\* C19 witness: the completion of one run was written after its worker
\* returned while a second run, started with the form cleared, is still with
\* its worker and its record says running.
C19_Witness ==
    /\ last.op = "resume_run_analysis"
    /\ Stored(files, last.file, "status_run") = COMPLETED
    /\ Stored(files, last.file, "timestamp_ended") # None
    /\ name_selector = <<>> /\ user_selector = {} /\ feature_selector = "" /\ statistical_selector = ""
    /\ \E id \in DOMAIN tasks :
          /\ tasks[id].pc = "awaiting"
          /\ tasks[id].filename # last.file
          /\ Stored(files, tasks[id].filename, "status_run") = RUNNING

\* C20: a persisted record holds results only once its run has finished
\* successfully: while its status is running its results are None, when its
\* status is failed they are the empty mapping.
C20_ResultsOnlyWhenCompleted ==
    \A f \in DOMAIN files :
        /\ Stored(files, f, "status_run") = RUNNING => Stored(files, f, "results") = None
        /\ Stored(files, f, "status_run") = FAILED => DOMAIN Stored(files, f, "results") = {}

\* C20, the divergence: a run was started after a completed analysis had
\* been loaded, and its running record holds the results of that analysis.
C20_Witness ==
    \E f, g \in DOMAIN files :
        /\ f # g
        /\ Stored(files, f, "status_run") = RUNNING
        /\ Stored(files, g, "status_run") = COMPLETED
        /\ Stored(files, f, "results") # None
        /\ Stored(files, f, "results") = Stored(files, g, "results")
        /\ \E id \in DOMAIN tasks : tasks[id].filename = f /\ tasks[id].pc = "awaiting"


(***************************************************************************)
(* Properties of the folder watcher (SpecWatch)                            *)
(***************************************************************************)
\* C16: every regular file of the folder whose name does not start with
\* '.' has exactly one subject row once process_file has handled it, the
\* row is created with status preprocessed, no process_file call ends in an
\* error, and hidden files and directories never get a row.
C16_OneRowPerRegularFile ==
    /\ pipe_event.outcome # "IntegrityError"
    /\ \A id \in DOMAIN users_table :
          IsFile(users_table[id].file_name) /\ ~StartsWithDot(users_table[id].file_name)
    /\ \A f \in folder : Cardinality(QueryByFileName(users_table, f)) <= 1
    /\ (\/ pipe_event.op = "process_file_insert"
        \/ pipe_event.op = "process_file_check" /\ pipe_event.outcome = "skipped")
       => Cardinality(QueryByFileName(users_table, pipe_event.file_name)) = 1
    /\ pipe_event.outcome = "created"
       => users_table[Splitext(pipe_event.file_name)].status = USER_STATUS_PREPROCESSED

\* C16, the divergence: process_file ended in the IntegrityError of the
\* insert for a regular file whose user id is taken by the row of another
\* file, and the file has no row.
C16_Witness ==
    /\ pipe_event.op = "process_file_insert"
    /\ pipe_event.outcome = "IntegrityError"
    /\ pipe_event.file_name \in folder
    /\ IsFile(pipe_event.file_name) /\ ~StartsWithDot(pipe_event.file_name)
    /\ QueryByFileName(users_table, pipe_event.file_name) = {}
    /\ Splitext(pipe_event.file_name) \in DOMAIN users_table
    /\ users_table[Splitext(pipe_event.file_name)].file_name # pipe_event.file_name


(***************************************************************************)
(* Properties of data_loaders.py (SpecLoad)                                *)
(***************************************************************************)
\* The files of the call that hold a table.
LoadedFrom == {i \in 1..3 : ld_files[i].exists /\ ld_files[i].size > 0}

\* C18: load_brain_volumes_data returns a table for every combination of
\* the three files being present, missing or empty; a missing or empty file
\* contributes no column and no row, every column of a present file is in
\* the table under its name, no column name occurs twice, and a name that
\* several files have comes from the first of those files.
C18_LoadToleratesMissingFiles ==
    ld_result # Pending =>
        /\ ~IsRaised(ld_result)
        /\ ld_result.index = UNION {ld_files[i].rows : i \in LoadedFrom}
        /\ \A j, k \in 1..Len(ld_result.columns) :
              ld_result.columns[j].name = ld_result.columns[k].name => j = k
        /\ {ld_result.columns[j].name : j \in 1..Len(ld_result.columns)}
              = UNION {Range(FileColumns[i]) : i \in LoadedFrom}
        /\ \A j \in 1..Len(ld_result.columns) :
              LET c == ld_result.columns[j]
              IN /\ c.from \in LoadedFrom
                 /\ \A i \in LoadedFrom : c.name \in Range(FileColumns[i]) => c.from <= i

\* C18 witness: the first file is missing, the second is empty, the third
\* holds a table with rows, and the call returned the three columns and the
\* rows of the third.
C18_Witness ==
    /\ ld_result # Pending
    /\ ~IsRaised(ld_result)
    /\ ld_files[1] = MissingFile
    /\ ld_files[2] = EmptyFile
    /\ ld_files[3].size > 0
    /\ ld_files[3].rows # {}
    /\ Len(ld_result.columns) = 3
    /\ ld_result.index = ld_files[3].rows


(***************************************************************************)
(* Properties of the rendering (SpecView)                                  *)
(***************************************************************************)
\* The label indexes of the regions of the rendering that have an entry in
\* the aparc-to-Destrieux table.
MappedIndexes ==
    {get_aparc_to_destrieux_mapping(StripArea(vw_region_values[i].region)) : i \in 1..Len(vw_region_values)} \ {0}

\* C17: a region without an entry in the lookup tables does not affect the
\* rendering: the glass-brain views get exactly the regions that have
\* coordinates, and in the mesh views every vertex that no mapped region
\* covers keeps intensity zero.
C17_UnmappedRegionsLeaveNoTrace ==
    /\ (vw_glass # Pending /\ "points" \in DOMAIN vw_glass) =>
          /\ \A i \in 1..Len(vw_glass.points) : get_coordinates_for_region(vw_glass.points[i].name) # None
          /\ {vw_glass.points[i].name : i \in 1..Len(vw_glass.points)}
                = {vw_region_values[i].region : i \in {k \in 1..Len(vw_region_values) :
                        get_coordinates_for_region(vw_region_values[k].region) # None}}
    /\ vw_texture # Pending =>
          \A v \in 1..NumVertices :
              /\ vw_aparc.map_left[v] \notin MappedIndexes => vw_texture.left[v] = 0
              /\ vw_aparc.map_right[v] \notin MappedIndexes => vw_texture.right[v] = 0

\* C17, the divergence: the only region of the rendering has no entry in
\* the aparc-to-Destrieux table, and a vertex with label 0 carries its value.
C17_Witness ==
    /\ vw_texture # Pending
    /\ Len(vw_region_values) = 1
    /\ vw_region_values[1].region = "Left-Hippocampus"
    /\ MappedIndexes = {}
    /\ \E v \in 1..NumVertices :
          /\ vw_aparc.map_left[v] = 0
          /\ vw_texture.left[v] = vw_region_values[1].value
          /\ vw_texture.left[v] # 0


(***************************************************************************)
(* Properties of the history list and the name field (SpecRuns, Spec)      *)
(***************************************************************************)
\* C21: for every filename of the in-memory history list the glyph of its
\* label is the one of the status of the persisted record of that filename
\* (check for completed, play for running, cross for failed, circle
\* otherwise), and the label list is as long as the filename list.
C21_GlyphMatchesStoredStatus ==
    /\ Len(analyses_history[1]) = Len(analyses_history[2])
    /\ \A i \in DOMAIN analyses_history[2] :
          LET status == Stored(files, analyses_history[2][i], "status_run")
          IN analyses_history[1][i].glyph =
                CASE status = COMPLETED -> "check"
                  [] status = RUNNING -> "play"
                  [] status = FAILED -> "cross"
                  [] OTHER -> "circle"

\* C21 witness: after a load the list holds a completed record under a
\* check mark next to a record whose run is still in flight, under play.
C21_Witness ==
    /\ last.op = "load_previous_analysis"
    /\ \E i, j \in DOMAIN analyses_history[2] :
          /\ analyses_history[1][i].glyph = "check"
          /\ Stored(files, analyses_history[2][i], "status_run") = COMPLETED
          /\ analyses_history[1][j].glyph = "play"
          /\ Stored(files, analyses_history[2][j], "status_run") = RUNNING


\* C22: selected_name holds only letters and digits whatever text is typed
\* into the name field; a click while the typed name sanitizes to the empty
\* string starts no run; and the name part of the filename of a run that is
\* started is the typed text without its other characters.
C22_NameIsSanitized ==
    [][/\ \A i \in DOMAIN selected_name' : IsAlnum(selected_name'[i])
       /\ (last'.op = "run_analysis" /\ SelectSeq(name_selector, IsAlnum) = <<>>)
             => /\ last'.outcome # "dispatched"
                /\ UNCHANGED <<files, tasks, analyses_history>>
       /\ (last'.op = "run_analysis" /\ last'.outcome = "dispatched")
             => /\ last'.file.stem[1] = SelectSeq(name_selector, IsAlnum)
                /\ last'.file \in DOMAIN files'
                /\ Stored(files', last'.file, "name").name = SelectSeq(name_selector, IsAlnum)]_vars

\* C22 witness: the name field holds a text of which only the letter is
\* kept as selected_name, and the rest of the form is filled in.
C22_Witness ==
    /\ name_selector = <<"-", "a">>
    /\ selected_name = <<"a">>
    /\ user_selector # {}
    /\ feature_selector # ""
    /\ statistical_selector # ""

(***************************************************************************)
(* Properties of FreeSurfer.update_table (SpecUpdate)                      *)
(***************************************************************************)

\* How many rows of the table equal the row.
Count(table, row) == Cardinality({i \in DOMAIN table : table[i] = row})

\* C23: update_table leaves exactly the rows of the new table plus the rows
\* of the existing table whose subject is not in the new table; with unique
\* subjects in the new table no subject has two rows afterwards, the rows of
\* other subjects are kept, and a second application of the same update
\* leaves the same table.
C23_UpdateTableReplacesRows ==
    /\ ut_result # Pending =>
          /\ ut_result.exists
          /\ \A row \in Rows :
                Count(ut_result.table, row) =
                    Count(ut_new.table, row) +
                    (IF \E i \in DOMAIN ut_new.table : ut_new.table[i].id_col = row.id_col THEN 0 ELSE Count(ut_existing.table, row))
          /\ UniqueIds(ut_new.table) => UniqueIds(ut_result.table)
          /\ \A i \in DOMAIN ut_existing.table :
                (\A j \in DOMAIN ut_new.table : ut_new.table[j].id_col # ut_existing.table[i].id_col)
                    => \E k \in DOMAIN ut_result.table : ut_result.table[k] = ut_existing.table[i]
    /\ ut_again # Pending => ut_again = ut_result

\* An update that replaces the row of one subject and keeps the row of
\* another, applied twice.
C23_Witness ==
    /\ ut_existing = Csv(<<Row([stem |-> "s1", suffixes |-> <<>>], 1), Row([stem |-> "s2", suffixes |-> <<>>], 1)>>)
    /\ ut_new = Csv(<<Row([stem |-> "s1", suffixes |-> <<>>], 2)>>)
    /\ ut_result = Csv(<<Row([stem |-> "s2", suffixes |-> <<>>], 1), Row([stem |-> "s1", suffixes |-> <<>>], 2)>>)
    /\ ut_again = ut_result

(***************************************************************************)
(* Properties of the pipeline (SpecPipe, SpecTables, SpecWatch)            *)
(***************************************************************************)

\* The status changes of the stage order.
StageOrder ==
    ({USER_STATUS_PREPROCESSED, USER_STATUS_FREESURFER_FAILED} \X {USER_STATUS_FREESURFER_PROCESSING})
    \cup ({USER_STATUS_FREESURFER_PROCESSING} \X {USER_STATUS_FREESURFER_COMPLETED, USER_STATUS_FREESURFER_FAILED})
    \cup ({USER_STATUS_FREESURFER_COMPLETED, USER_STATUS_UPDATE_TABLE_FAILED} \X {USER_STATUS_UPDATE_TABLE_PROCESSING})
    \cup ({USER_STATUS_UPDATE_TABLE_PROCESSING} \X {USER_STATUS_UPDATE_TABLE_COMPLETED, USER_STATUS_UPDATE_TABLE_FAILED})

\* C24: the committed status of a subject changes only along the stage
\* order; in particular a subject that is being processed or has its tables
\* updated is never put back to freesurfer_processing.
C24_StatusFollowsStageOrder ==
    [][\A id \in DOMAIN users_table :
          (id \in DOMAIN users_table' /\ users_table'[id].status # users_table[id].status)
              => <<users_table[id].status, users_table'[id].status>> \in StageOrder]_vars

\* A recon-all process has put a subject back to freesurfer_processing
\* whose rows are in the three tables.
C24_Witness ==
    /\ pipe_event.op = "proc_begin"
    /\ pipe_event.stage = "recon-all"
    /\ pipe_event.outcome = "processing"
    /\ \E id \in DOMAIN users_table :
          /\ users_table[id].file_name = pipe_event.file_name
          /\ users_table[id].status = USER_STATUS_FREESURFER_PROCESSING
          /\ \A i \in DOMAIN tables : SubjectName(users_table[id].file_name) \in Ids(tables[i].table)
    /\ \A pid \in DOMAIN procs : procs[pid].stage = "recon-all"

\* C25: an update-table process that loaded a status other than
\* freesurfer_completed and update_table_failed never reaches a command: it
\* ends with the RuntimeError of line 186, and that step leaves the users
\* table and the three tables as they were.
C25_UpdateTableRefusedBeforeCommands ==
    [][\A pid \in DOMAIN procs :
          (/\ procs[pid].stage = "update-table"
           /\ procs[pid].pc = "loaded"
           /\ procs[pid].status \notin {USER_STATUS_FREESURFER_COMPLETED, USER_STATUS_UPDATE_TABLE_FAILED})
              => \/ pid \in DOMAIN procs' /\ procs'[pid] = procs[pid]
                 \/ /\ pid \notin DOMAIN procs'
                    /\ pipe_event' = PipeEvent("proc_begin", "update-table", procs[pid].file_name, "RuntimeError")
                    /\ UNCHANGED <<users_table, tables>>]_vars

\* update-table was started for a subject recon-all has not run for, and
\* was refused.
C25_Witness ==
    /\ pipe_event.op = "proc_begin"
    /\ pipe_event.stage = "update-table"
    /\ pipe_event.outcome = "RuntimeError"
    /\ procs = <<>>
    /\ \E id \in DOMAIN users_table :
          /\ users_table[id].file_name = pipe_event.file_name
          /\ users_table[id].status = USER_STATUS_PREPROCESSED
    /\ \A i \in DOMAIN tables : tables[i] = NoCsv

\* C26: once the update-table processes have ended and two different
\* subjects are in update_table_completed, each of the three tables has the
\* rows of both.
C26_BothRowsInEveryTable ==
    \A id1, id2 \in DOMAIN users_table :
        (/\ id1 # id2
         /\ procs = <<>>
         /\ users_table[id1].status = USER_STATUS_UPDATE_TABLE_COMPLETED
         /\ users_table[id2].status = USER_STATUS_UPDATE_TABLE_COMPLETED)
            => \A i \in DOMAIN tables :
                  {SubjectName(users_table[id1].file_name), SubjectName(users_table[id2].file_name)} \subseteq Ids(tables[i].table)

\* Two update-table processes have run together and completed, and a table
\* has the row of one subject only.
C26_Witness ==
    /\ procs = <<>>
    /\ launched = 2
    /\ pipe_event.op = "proc_ends"
    /\ pipe_event.outcome = "completed"
    /\ Cardinality(DOMAIN users_table) = 2
    /\ \A id \in DOMAIN users_table : users_table[id].status = USER_STATUS_UPDATE_TABLE_COMPLETED
    /\ \E i \in DOMAIN tables : Len(tables[i].table) = 1

\* C27: a file has at most one row, and a process_file call for a file
\* that has its row afterwards did not fail: when the daemon and a --once
\* scan both handle a new file, one inserts and the other skips.
C27_SameFileInsertedOnce ==
    /\ \A f \in folder : Cardinality(QueryByFileName(users_table, f)) <= 1
    /\ (pipe_event.op = "process_file_insert" /\ QueryByFileName(users_table, pipe_event.file_name) # {})
          => pipe_event.outcome = "created"

\* Both processes passed the existence check for the same file; the second
\* insert hit the row of the first.
C27_Witness ==
    /\ pipe_event.op = "process_file_insert"
    /\ pipe_event.outcome = "IntegrityError"
    /\ Splitext(pipe_event.file_name) \in DOMAIN users_table
    /\ users_table[Splitext(pipe_event.file_name)].file_name = pipe_event.file_name
    /\ watchers = {}

(***************************************************************************)
(* Properties of runs in flight together (SpecRuns)                        *)
(***************************************************************************)

\* The history entries of the filenames other than filename.
OtherEntries(history, filename) ==
    {<<history[1][i], history[2][i]>> : i \in {j \in DOMAIN history[2] : history[2][j] # filename}}

\* C28: when a run completes while another run of the session is in
\* flight, the completion writes the record and the history entry of its own
\* filename only, the record carries the cohort, feature and test the run
\* was started with, and the record of the other run is left as it was.
C28_CompletionWritesOwnRecordOnly ==
    [][\A id \in DOMAIN tasks \ DOMAIN tasks' :
          (DOMAIN tasks' # {}) =>
              LET t == tasks[id]
              IN /\ \A f \in DOMAIN files \ {t.filename} : f \in DOMAIN files' /\ files'[f] = files[f]
                 /\ OtherEntries(analyses_history', t.filename) = OtherEntries(analyses_history, t.filename)
                 /\ Stored(files', t.filename, "selected_users") = t.analysis_users
                 /\ Stored(files', t.filename, "selected_feature") = t.analysis_feature
                 /\ Stored(files', t.filename, "selected_statistical") = t.analysis_statistical
                 /\ Stored(files', t.filename, "status_run") \in {COMPLETED, FAILED}
                 /\ \A other \in DOMAIN tasks' : files'[tasks'[other].filename] = files[tasks'[other].filename]]_vars

\* C28, the divergence: two runs started in the same second with the same
\* name, feature and test share a filename; the completion of the first has
\* rewritten the record of the second, which is still with its worker.
C28_Witness ==
    /\ last.op = "resume_run_analysis"
    /\ Stored(files, last.file, "status_run") \in {COMPLETED, FAILED}
    /\ \E id \in DOMAIN tasks :
          /\ tasks[id].filename = last.file
          /\ tasks[id].pc = "awaiting"

\* Without the shared filename: the completions of runs in flight together
\* whose filenames differ.
C28_HoldsForDistinctFilenames ==
    [][\A id \in DOMAIN tasks \ DOMAIN tasks' :
          (DOMAIN tasks' # {} /\ \A other \in DOMAIN tasks' : tasks'[other].filename # tasks[id].filename) =>
              LET t == tasks[id]
              IN /\ \A f \in DOMAIN files \ {t.filename} : f \in DOMAIN files' /\ files'[f] = files[f]
                 /\ OtherEntries(analyses_history', t.filename) = OtherEntries(analyses_history, t.filename)
                 /\ Stored(files', t.filename, "selected_users") = t.analysis_users
                 /\ Stored(files', t.filename, "selected_feature") = t.analysis_feature
                 /\ Stored(files', t.filename, "selected_statistical") = t.analysis_statistical
                 /\ Stored(files', t.filename, "status_run") \in {COMPLETED, FAILED}
                 /\ \A other \in DOMAIN tasks' : files'[tasks'[other].filename] = files[tasks'[other].filename]]_vars

(***************************************************************************)
(* Properties of the cohort selector (SpecFilter)                          *)
(***************************************************************************)
\* C29: the subjects the cohort selector offers are among the subjects that
\* had status update_table_completed in the users table when the session
\* loaded it.
C29_SelectableSubjectsCompleted ==
    uf_widgets # Pending =>
        uf_options \subseteq {u \in DOMAIN uf_db : uf_db[u].status = USER_STATUS_UPDATE_TABLE_COMPLETED}

\* A history load after a filter change: the selector offers every loaded
\* subject again, a subject the filters exclude among them, and not the
\* subject whose tables are not updated.
C29_Witness ==
    /\ uf_widgets # Pending
    /\ uf_options = DOMAIN uf_users_df
    /\ uf_options # filtered_users(uf_users_df, uf_widgets)
    /\ uf_options # {}
    /\ \E u \in DOMAIN uf_db : uf_db[u].status # USER_STATUS_UPDATE_TABLE_COMPLETED

(***************************************************************************)
(* Properties of the subject identifiers (SpecPipe)                        *)
(***************************************************************************)
\* C30: the user_id the watcher stores for a file is the subject name the
\* pipeline derives from the file name, so a table that has the row the
\* pipeline wrote for a subject has a row under the subject's user_id.
C30_UserIdIsTableRowKey ==
    \A id \in DOMAIN users_table :
        /\ id = SubjectName(users_table[id].file_name)
        /\ \A i \in DOMAIN tables :
              SubjectName(users_table[id].file_name) \in Ids(tables[i].table) => id \in Ids(tables[i].table)

\* C30, the divergence: the tables of a file with two suffixes are updated;
\* its rows are keyed by the name without suffixes, its user_id keeps the
\* first suffix and is the key of no row.
C30_Witness ==
    \E id \in DOMAIN users_table :
        /\ Len(users_table[id].file_name.suffixes) = 2
        /\ users_table[id].status = USER_STATUS_UPDATE_TABLE_COMPLETED
        /\ id.suffixes # <<>>
        /\ \A i \in DOMAIN tables :
              /\ SubjectName(users_table[id].file_name) \in Ids(tables[i].table)
              /\ id \notin Ids(tables[i].table)

====
